---- MODULE Spec2Model ----
(***************************************************************************)
(* Model of the micro-SaaS opportunity engine (src/src/engine.py and its   *)
(* collaborators scoring.py, critic.py, feedback.py).                      *)
(*                                                                         *)
(* Numbers: Python floats are modelled as exact fixed-point integers in    *)
(* tenths (4.5 is 45).  Component scores are Python ints and stay whole;   *)
(* Tenths(n) lifts them where the code adds them to a float.  Comparisons  *)
(* against a product such as 0.75 * max are cross-multiplied.              *)
(*                                                                         *)
(* Text: a free-text field is modelled by what the code extracts from it:  *)
(* the set of keywords it contains, the label the embedding match returns, *)
(* the parsed price list and flags of a revenue model.                     *)
(***************************************************************************)
EXTENDS Integers, Sequences, FiniteSets, TLC

VARIABLES
    pc,              \* position of the operation in progress
    scoring_config,  \* ScoringEngine.config (maxima, buckets, adjustments)
    critic_config,   \* Critic configuration (lists, penalties, bonuses)
    feedback,        \* UserFeedbackManager.feedback: lower-cased title -> rating (tenths)
    idea_dataset,    \* OpportunityEngine.idea_dataset: the pool, a sequence of raw ideas
    iteration,       \* run: number of completed loop iterations
    scored,          \* run: result of the latest _run_iteration
    ideas,           \* run: the list that run returns
    passes,          \* number of _run_iteration calls made by run
    research_calls,  \* number of researcher.search_micro_saas_ideas calls
    new_ideas,       \* refine_dataset called on its own: the candidates the researcher returned
    weakest,         \* refine_dataset: weakest_dimension of the last refinement
    arg,             \* argument of the pure operation applied last
    ret,             \* its return value
    feedback_path,   \* UserFeedbackManager.feedback_path
    files            \* the feedback files on disk, by path

vars == <<pc, scoring_config, critic_config, feedback, idea_dataset, iteration,
          scored, ideas, passes, research_calls, new_ideas, weakest, arg, ret,
          feedback_path, files>>

(***************************************************************************)
(* Bounds                                                                  *)
(***************************************************************************)
MaxPool == 2        \* longest initial pool
MaxCand == 4        \* longest sequence the research source returns to one refine_dataset call
MaxRunCand == 2     \* longest sequence the research source returns during a run

(***************************************************************************)
(* Generic helpers                                                         *)
(***************************************************************************)
Tenths(n) == n * 10

Range(s) == {s[i] : i \in 1..Len(s)}

SeqsUpTo(S, n) == UNION {[1..k -> S] : k \in 0..n}

RECURSIVE SumSeq(_)
SumSeq(s) == IF s = <<>> THEN 0 ELSE Head(s) + SumSeq(Tail(s))

RECURSIVE SelectIdx(_, _, _)
\* the subsequence of s at the indices for which keep[i] holds, in order
SelectIdx(s, keep, i) ==
    IF i > Len(s) THEN <<>>
    ELSE (IF keep[i] THEN <<s[i]>> ELSE <<>>) \o SelectIdx(s, keep, i + 1)

\* str.lower() on the strings the model uses
Lower(s) ==
    CASE s = "Alpha"  -> "alpha"
      [] s = "ALPHA"  -> "alpha"
      [] s = "Beta"   -> "beta"
      [] s = "Gamma"  -> "gamma"
      [] s = "Delta"  -> "delta"
      [] s = "Rising" -> "rising"
      [] s = "RISING" -> "rising"
      [] s = "High"   -> "high"
      [] s = "Low"    -> "low"
      [] s = "Wrapper" -> "wrapper"
      [] OTHER        -> s

\* int(x) of a Python float given in tenths: truncation toward zero
IntOfTenths(t) == IF t >= 0 THEN t \div 10 ELSE -((-t) \div 10)

(***************************************************************************)
(* models.py                                                               *)
(***************************************************************************)
\* ScoreDetail without its rationale text
ScoreDetail(value, max) == [value |-> value, max |-> max]

\* IdeaScores.total: recomputed from the five components on every access
Total(scores) ==
    ScoreDetail(
        scores.demand.value + scores.acquisition.value + scores.mvp_complexity.value
            + scores.competition.value + scores.revenue_velocity.value,
        scores.demand.max + scores.acquisition.max + scores.mvp_complexity.max
            + scores.competition.max + scores.revenue_velocity.max)

(***************************************************************************)
(* scoring.py                                                              *)
(***************************************************************************)
\* ScoringEngine._load_config: the built-in defaults
DefaultScoringConfig ==
    [maxima |-> [demand |-> 30, acquisition |-> 20, mvp_complexity |-> 20,
                 competition |-> 20, revenue_velocity |-> 10],
     price_band_buckets |-> [low |-> 120, mid |-> 500],
     price_band_adjustments |->
        [demand         |-> [low |-> 2,  mid |-> 0, high |-> -2],
         acquisition    |-> [low |-> 1,  mid |-> 0, high |-> -2],
         mvp_complexity |-> [low |-> -1, mid |-> 0, high |-> 1]]]

\* a user configuration merged over the defaults: tighter maxima, so that the
\* clamp of every dimension is exercised, and other price bands
TightScoringConfig ==
    [maxima |-> [demand |-> 25, acquisition |-> 16, mvp_complexity |-> 15,
                 competition |-> 13, revenue_velocity |-> 8],
     price_band_buckets |-> [low |-> 40, mid |-> 500],
     price_band_adjustments |->
        [demand         |-> [low |-> 2,  mid |-> 0, high |-> -30],
         acquisition    |-> [low |-> 1,  mid |-> 0, high |-> -2],
         mvp_complexity |-> [low |-> -1, mid |-> 0, high |-> 1]]]

ScoringConfigs == {DefaultScoringConfig, TightScoringConfig}

\* dict.update(user) on a table of the configuration
Update(table, user) ==
    [k \in DOMAIN table \cup DOMAIN user |-> IF k \in DOMAIN user THEN user[k] ELSE table[k]]

\* ScoringEngine._load_config on a configuration file: kind "missing" (no
\* such file), "corrupt" (not JSON) or "object" (data: the tables it gives);
\* json.JSONDecodeError is not caught
LoadScoringConfig(file) ==
    IF file.kind = "missing" THEN DefaultScoringConfig
    ELSE IF file.kind = "corrupt" THEN "JSONDecodeError"
    ELSE [key \in DOMAIN DefaultScoringConfig |->
            IF key \in DOMAIN file.data
            THEN Update(DefaultScoringConfig[key], file.data[key])
            ELSE DefaultScoringConfig[key]]

\* self.price_band_adjustments[dimension].get(price_band, 0)
BandAdjustment(table, price_band) ==
    IF price_band \in DOMAIN table THEN table[price_band] ELSE 0

\* ScoringEngine._get_price_band over the parsed revenue model rm
\* (prices in whole currency units; avg <= t is Sum <= t * Len)
GetPriceBand(cfg, rm) ==
    IF rm.contact_sales THEN "high"
    ELSE IF rm.freemium /\ rm.prices = <<>> THEN "low"
    ELSE IF rm.prices = <<>> THEN "mid"
    ELSE IF SumSeq(rm.prices) <= cfg.price_band_buckets.low * Len(rm.prices) THEN "low"
    ELSE IF SumSeq(rm.prices) <= cfg.price_band_buckets.mid * Len(rm.prices) THEN "mid"
    ELSE "high"

\* ScoringEngine._clamp_score
ClampScore(value, maximum) ==
    LET m == IF value < maximum THEN value ELSE maximum
    IN  IF m > 0 THEN m ELSE 0

\* keyword lists of score_acquisition
AcqHighKeywords == {"smb", "small", "startup", "developer", "marketing", "agency", "podcaster"}
AcqNicheKeywords ==
    {"freelancer", "creator", "service provider", "sales", "restaurant", "cafe",
     "local business", "content creator", "sales team", "sales reps", "landlord",
     "real estate", "contractor", "contractors", "msp", "lawyer", "attorney", "legal",
     "accountant", "tax", "bookkeeper", "shopify", "etsy", "airbnb", "host", "event",
     "wedding", "volunteer", "church", "nonprofit", "influencer", "affiliate"}
AcqHardKeywords ==
    {"lab", "clinical", "construction", "manufacturers", "manufacturing", "compliance",
     "esg", "digital twin"}

\* keyword lists of score_competition
BroadMarketKeywords == {"smb", "small", "marketing", "sales", "content creator", "developers", "agency"}
CompNicheKeywords ==
    {"construction", "clinical", "compliance", "esg", "digital twin", "internal tool",
     "script generator", "podcast", "restaurant", "inventory"}

\* the label score_demand works with: _semantic_match, then the guardrail
\* (similarity in hundredths)
DemandLabel(idea) ==
    IF idea.pain.similarity < 40 \/ idea.pain.mild_keyword THEN "mild" ELSE idea.pain.label

\* ScoringEngine.score_demand
ScoreDemand(cfg, idea) ==
    LET price_band == GetPriceBand(cfg, idea.revenue_model)
        adjustment == BandAdjustment(cfg.price_band_adjustments.demand, price_band)
        label == DemandLabel(idea)
        base == IF label = "acute" THEN 26 ELSE IF label = "moderate" THEN 22 ELSE 16
    IN  ScoreDetail(ClampScore(base + adjustment, cfg.maxima.demand), cfg.maxima.demand)

\* ScoringEngine.score_acquisition (idea.icp: the keywords the icp text contains)
ScoreAcquisition(cfg, idea) ==
    LET price_band == GetPriceBand(cfg, idea.revenue_model)
        adjustment == BandAdjustment(cfg.price_band_adjustments.acquisition, price_band)
        base == IF idea.icp \cap AcqHighKeywords # {} THEN 17
                ELSE IF idea.icp \cap AcqNicheKeywords # {} THEN 15
                ELSE IF idea.icp \cap AcqHardKeywords # {} THEN 13
                ELSE 11
    IN  ScoreDetail(ClampScore(base + adjustment, cfg.maxima.acquisition), cfg.maxima.acquisition)

\* ScoringEngine.score_mvp_complexity (idea.solution: label of the embedding match)
ScoreMvpComplexity(cfg, idea) ==
    LET price_band == GetPriceBand(cfg, idea.revenue_model)
        adjustment == BandAdjustment(cfg.price_band_adjustments.mvp_complexity, price_band)
        base == IF idea.solution = "high" THEN 11
                ELSE IF idea.solution = "moderate" THEN 14 ELSE 17
    IN  ScoreDetail(ClampScore(base + adjustment, cfg.maxima.mvp_complexity), cfg.maxima.mvp_complexity)

\* ScoringEngine.score_competition
ScoreCompetition(cfg, idea) ==
    LET rm == idea.revenue_model
        base_value == IF idea.icp \cap BroadMarketKeywords # {} THEN 14
                      ELSE IF idea.icp \cap CompNicheKeywords # {} THEN 17
                      ELSE 12
        value == IF rm.dollar /\ rm.plus
                    THEN (IF base_value - 1 > 12 THEN base_value - 1 ELSE 12)
                 ELSE IF rm.dollar /\ rm.dash THEN base_value
                 ELSE IF rm.dollar
                    THEN (IF base_value + 1 < cfg.maxima.competition
                          THEN base_value + 1 ELSE cfg.maxima.competition)
                 ELSE (IF base_value - 2 > 12 THEN base_value - 2 ELSE 12)
    IN  ScoreDetail(ClampScore(value, cfg.maxima.competition), cfg.maxima.competition)

\* ScoringEngine.score_revenue_velocity
ScoreRevenueVelocity(cfg, idea) ==
    LET rm == idea.revenue_model
        value == IF rm.freemium /\ rm.prices = <<>> THEN 9
                 ELSE IF rm.contact_sales /\ rm.prices = <<>> THEN 6
                 ELSE IF rm.prices = <<>> THEN 7
                 ELSE IF SumSeq(rm.prices) < 100 * Len(rm.prices) THEN 9
                 ELSE IF SumSeq(rm.prices) < 500 * Len(rm.prices) THEN 8
                 ELSE 6
    IN  ScoreDetail(ClampScore(value, cfg.maxima.revenue_velocity), cfg.maxima.revenue_velocity)

\* ScoringEngine.score_idea
ScoreIdea(cfg, idea) ==
    [demand           |-> ScoreDemand(cfg, idea),
     acquisition      |-> ScoreAcquisition(cfg, idea),
     mvp_complexity   |-> ScoreMvpComplexity(cfg, idea),
     competition      |-> ScoreCompetition(cfg, idea),
     revenue_velocity |-> ScoreRevenueVelocity(cfg, idea)]

(***************************************************************************)
(* critic.py                                                               *)
(***************************************************************************)
\* a dict key that is not there, or a None value
NoValue == "<none>"

\* Critic.__init__: current_year (datetime.now().year unless given)
CurrentYear == 2025

\* Critic._load_config: the built-in defaults
DefaultCriticConfig ==
    [trusted_domains |-> {}, blocked_domains |-> {}, novelty_keywords |-> {},
     penalties |-> [blocked_domain |-> -20, novelty |-> -10, stale |-> -5],
     bonuses |-> [trusted_domain |-> 5, recent |-> 2]]

\* a complete user configuration (the one of tests/test_critic_enhanced.py)
ListedCriticConfig ==
    [trusted_domains |-> {"trusted.com"}, blocked_domains |-> {"spam.com"},
     novelty_keywords |-> {"wrapper"},
     penalties |-> [blocked_domain |-> -10, novelty |-> -5, stale |-> -2],
     bonuses |-> [trusted_domain |-> 3, recent |-> 1]]

CriticConfigs == {DefaultCriticConfig, ListedCriticConfig}

\* Critic._extract_domain on the sources the model uses
ExtractDomain(source) ==
    CASE source = "https://trusted.com/article"  -> "trusted.com"
      [] source = "http://spam.com/list"         -> "spam.com"
      [] source = "https://www.spam.com.trusted.com" -> "spam.com.trusted.com"
      [] source = NoValue                        -> ""
      [] OTHER                                   -> Lower(source)

\* `entry in domain`: the list entries that are substrings of a domain
DomainSubstrings(domain) ==
    CASE domain = "trusted.com"          -> {"trusted.com"}
      [] domain = "spam.com"             -> {"spam.com"}
      [] domain = "spam.com.trusted.com" -> {"spam.com", "trusted.com"}
      [] OTHER                           -> {}

\* the four additive terms of Critic.evaluate, in tenths
DomainTerm(ccfg, idea) ==
    LET domain == ExtractDomain(idea.source)
    IN  (IF DomainSubstrings(domain) \cap ccfg.trusted_domains # {}
            THEN Tenths(ccfg.bonuses.trusted_domain) ELSE 0)
      + (IF DomainSubstrings(domain) \cap ccfg.blocked_domains # {}
            THEN Tenths(ccfg.penalties.blocked_domain) ELSE 0)

CredibilityTerm(idea) ==
    LET credibility == Lower(IF idea.credibility = NoValue THEN "medium" ELSE idea.credibility)
    IN  IF credibility = "high" THEN 20 ELSE IF credibility = "low" THEN -20 ELSE 0

\* idea.text_words: the words of lower(title + " " + solution)
NoveltyTerm(ccfg, idea) ==
    IF idea.text_words \cap ccfg.novelty_keywords # {}
    THEN Tenths(ccfg.penalties.novelty) ELSE 0

\* the recency term with the stale penalty from a gap of 3 years on
RecencyTermStaleFromThree(ccfg, idea) ==
    IF idea.source_date.kind # "year" THEN 0
    ELSE IF CurrentYear - idea.source_date.year >= 3 THEN Tenths(ccfg.penalties.stale)
    ELSE IF CurrentYear - idea.source_date.year <= 1 THEN Tenths(ccfg.bonuses.recent)
    ELSE 0

\* idea.source_date: kind "none" (absent, None or ""), "year" (parses, leading
\* year given) or "bad" (int() or split() raises, swallowed by the except)
RecencyTerm(ccfg, idea) ==
    IF idea.source_date.kind # "year" THEN 0
    ELSE IF CurrentYear - idea.source_date.year > 3
        THEN (IF "stale" \in DOMAIN ccfg.penalties THEN Tenths(ccfg.penalties.stale) ELSE 0)
    ELSE IF CurrentYear - idea.source_date.year <= 1
        THEN (IF "recent" \in DOMAIN ccfg.bonuses THEN Tenths(ccfg.bonuses.recent) ELSE 0)
    ELSE 0

\* Critic.evaluate
CriticEvaluate(ccfg, idea) ==
    0 + DomainTerm(ccfg, idea) + CredibilityTerm(idea) + NoveltyTerm(ccfg, idea)
      + RecencyTerm(ccfg, idea)

\* Critic._load_config on a configuration file: the object of the file as it
\* is, the defaults when the file is missing or not JSON
LoadCriticConfig(file) ==
    IF file.kind \in {"missing", "corrupt"} THEN DefaultCriticConfig ELSE file.data

\* Critic.__init__: the attributes read from the loaded object with
\* config.get(key, default)
CriticAttributes(config) ==
    [key \in DOMAIN DefaultCriticConfig |->
        IF key \in DOMAIN config THEN config[key] ELSE DefaultCriticConfig[key]]

\* Critic.evaluate raises KeyError: a magnitude it reads outside the try
\* block is not in self.penalties or self.bonuses
EvaluateRaises(ccfg, idea) ==
    LET inside == DomainSubstrings(ExtractDomain(idea.source))
    IN  \/ inside \cap ccfg.trusted_domains # {} /\ "trusted_domain" \notin DOMAIN ccfg.bonuses
        \/ inside \cap ccfg.blocked_domains # {} /\ "blocked_domain" \notin DOMAIN ccfg.penalties
        \/ idea.text_words \cap ccfg.novelty_keywords # {} /\ "novelty" \notin DOMAIN ccfg.penalties

\* the outcome of Critic.evaluate: the adjustment or the exception
EvaluateOutcome(ccfg, idea) ==
    IF EvaluateRaises(ccfg, idea)
    THEN [exception |-> "KeyError"]
    ELSE [value |-> CriticEvaluate(ccfg, idea)]

\* evaluate_with_rationale with the adjustment alone
EvaluateWithoutRationale(ccfg, idea) ==
    [adjustment |-> CriticEvaluate(ccfg, idea), rationale |-> {}]

\* Critic.evaluate_with_rationale: called by the engine and by the tests, not
\* defined in critic.py; modelled from its contract (adjustment of evaluate,
\* rationale naming the signals that fired)
EvaluateWithRationale(ccfg, idea) ==
    [adjustment |-> CriticEvaluate(ccfg, idea),
     rationale |->
        (IF DomainSubstrings(ExtractDomain(idea.source)) \cap ccfg.trusted_domains # {}
            THEN {"trusted"} ELSE {})
        \cup (IF DomainSubstrings(ExtractDomain(idea.source)) \cap ccfg.blocked_domains # {}
            THEN {"blocked"} ELSE {})
        \cup (IF CredibilityTerm(idea) # 0 THEN {"credibility"} ELSE {})
        \cup (IF idea.text_words \cap ccfg.novelty_keywords # {} THEN {"novelty"} ELSE {})
        \cup (IF idea.source_date.kind = "year" /\ CurrentYear - idea.source_date.year > 3
            THEN {"stale"} ELSE {})
        \cup (IF idea.source_date.kind = "year" /\ CurrentYear - idea.source_date.year <= 1
            THEN {"recent"} ELSE {})]

(***************************************************************************)
(* feedback.py                                                             *)
(***************************************************************************)
\* the centre of the rating scale, 2.5, in tenths
RatingCentre == 25

\* get_adjustment as the class docstring words it: rating * 2
GetAdjustmentUncentred(fb, title) ==
    IF Lower(title) \notin DOMAIN fb THEN 0
    ELSE fb[Lower(title)] * 2

\* UserFeedbackManager.get_adjustment (ratings and result in tenths)
GetAdjustment(fb, title) ==
    IF Lower(title) \notin DOMAIN fb THEN 0
    ELSE (fb[Lower(title)] - RatingCentre) * 2

\* UserFeedbackManager.__init__: the map loaded from a feedback file.  kind
\* "dict" is a JSON object of numbers (data: title -> rating); any other kind
\* (no path, missing or unparseable file, not an object) leaves the map empty
LoadFeedback(file) ==
    IF file.kind # "dict" THEN [k \in {} |-> 0]
    ELSE [k \in {Lower(t) : t \in DOMAIN file.data} |->
            file.data[CHOOSE t \in DOMAIN file.data : Lower(t) = k]]

\* the paths a feedback file is read from or saved to
FeedbackPaths == {"feedback.json", "out.json"}

\* no file at a path
NoFile == [kind |-> "absent", data |-> [k \in {} |-> 0]]
NoFiles == [p \in FeedbackPaths |-> NoFile]

\* the file json.dump(self.feedback, f) writes
DumpedFeedback(fb) == [kind |-> "dict", data |-> fb]

\* target_path with the constructor path taking precedence over the argument
TargetPathConstructorFirst(path, constructor_path) ==
    IF constructor_path # NoValue /\ constructor_path # "" THEN constructor_path
    ELSE IF path # NoValue /\ path # "" THEN path
    ELSE NoValue

\* UserFeedbackManager.save_feedback: target_path, NoValue when there is none
TargetPath(path, constructor_path) ==
    IF path # NoValue /\ path # "" THEN path
    ELSE IF constructor_path # NoValue /\ constructor_path # "" THEN constructor_path
    ELSE NoValue

\* add_rating storing under the title as given
AddRatingExact(fb, title, rating) ==
    [k \in DOMAIN fb \cup {title} |-> IF k = title THEN rating ELSE fb[k]]

\* UserFeedbackManager.add_rating
AddRatingTo(fb, title, rating) ==
    [k \in DOMAIN fb \cup {Lower(title)} |-> IF k = Lower(title) THEN rating ELSE fb[k]]

(***************************************************************************)
(* engine.py: pure parts                                                   *)
(***************************************************************************)
\* an optional field holding a number: kind "none" (key absent or None),
\* "num" (int or float, in tenths), "intstr" (a string int() accepts, its value
\* in tenths) or "badstr" (a string int() rejects, such as "50.9" or "n/a")
NoNumber == [kind |-> "none", tenths |-> 0]
Num(t) == [kind |-> "num", tenths |-> t]

\* OpportunityEngine._safe_int
SafeInt(v) ==
    IF v.kind = "none" \/ v.kind = "badstr" THEN [some |-> FALSE, val |-> 0]
    ELSE [some |-> TRUE, val |-> IntOfTenths(v.tenths)]

\* _has_positive_external_signal answering True for every idea
SignalAlwaysPositive(idea) == TRUE

\* OpportunityEngine._has_positive_external_signal
HasPositiveExternalSignal(idea) ==
    LET search_volume == SafeInt(idea.search_volume)
        keyword_difficulty == SafeInt(idea.keyword_difficulty)
        trend_status == IF idea.trend_status = NoValue THEN "" ELSE Lower(idea.trend_status)
        search_signal == search_volume.some /\ search_volume.val >= 1000
        difficulty_signal == keyword_difficulty.some /\ keyword_difficulty.val <= 50
        trend_signal == trend_status = "rising"
    IN  search_signal \/ difficulty_signal \/ trend_signal

\* _recommendation without the external-signal gate
RecommendationUngated(scores, adjusted_total, positive_external_signal) ==
    LET total_max == Total(scores).max
    IN  IF /\ adjusted_total * 100 >= 75 * Tenths(total_max)
           /\ scores.demand.value * 100 >= 80 * scores.demand.max
           /\ scores.acquisition.value * 100 >= 75 * scores.acquisition.max
        THEN "green_build"
        ELSE IF adjusted_total * 100 >= 65 * Tenths(total_max) THEN "yellow_validate"
        ELSE "red_kill"

\* OpportunityEngine._recommendation (adjusted_total in tenths; x >= 0.75 * m
\* is written 100 * x >= 75 * m)
Recommendation(scores, adjusted_total, positive_external_signal) ==
    LET total_max == Total(scores).max
    IN  IF /\ adjusted_total * 100 >= 75 * Tenths(total_max)
           /\ scores.demand.value * 100 >= 80 * scores.demand.max
           /\ scores.acquisition.value * 100 >= 75 * scores.acquisition.max
           /\ positive_external_signal
        THEN "green_build"
        ELSE IF adjusted_total * 100 >= 65 * Tenths(total_max) THEN "yellow_validate"
        ELSE "red_kill"

\* AdjustedTotal without the upper bound
AdjustedTotalNoCap(raw_total, max_total, cred_adjust, feedback_adjust) ==
    LET sum == Tenths(raw_total) + cred_adjust + feedback_adjust
    IN  IF sum < 0 THEN 0 ELSE sum

\* the bounding of the adjusted total in _run_iteration and generate_opportunities
AdjustedTotal(raw_total, max_total, cred_adjust, feedback_adjust) ==
    LET sum == Tenths(raw_total) + cred_adjust + feedback_adjust
        low == IF sum < 0 THEN 0 ELSE sum
    IN  IF low > Tenths(max_total) THEN Tenths(max_total) ELSE low

\* body of the loop of _run_iteration / generate_opportunities: one scored Idea
ScoreOne(cfg, ccfg, fb, idea_data) ==
    LET scores == ScoreIdea(cfg, idea_data)
        critic == EvaluateWithRationale(ccfg, idea_data)
        feedback_adjust == GetAdjustment(fb, idea_data.title)
        adjusted_total == AdjustedTotal(Total(scores).value, Total(scores).max,
                                        critic.adjustment, feedback_adjust)
    IN  [title |-> idea_data.title,
         scores |-> scores,
         recommendation |-> Recommendation(scores, adjusted_total,
                                           HasPositiveExternalSignal(idea_data)),
         final_total |-> adjusted_total,
         critic_adjustment |-> critic.adjustment,
         feedback_adjustment |-> feedback_adjust,
         critic_rationale |-> critic.rationale]

\* OpportunityEngine._run_iteration
RunIteration(cfg, ccfg, fb, pool) ==
    [i \in 1..Len(pool) |-> ScoreOne(cfg, ccfg, fb, pool[i])]

\* OpportunityEngine.generate_opportunities (same computation, other field reads)
GenerateOpportunities(cfg, ccfg, fb, pool) ==
    [i \in 1..Len(pool) |-> ScoreOne(cfg, ccfg, fb, pool[i])]

AnyGreen(scored_ideas) ==
    \E i \in 1..Len(scored_ideas) : scored_ideas[i].recommendation = "green_build"

\* the sort without reverse=True: ascending
RECURSIVE InsertAscending(_, _)
InsertAscending(x, s) ==
    IF s = <<>> THEN <<x>>
    ELSE IF x.final_total < Head(s).final_total THEN <<x>> \o s
    ELSE <<Head(s)>> \o InsertAscending(x, Tail(s))

RECURSIVE SortAscending(_)
SortAscending(s) ==
    IF s = <<>> THEN <<>>
    ELSE InsertAscending(s[Len(s)], SortAscending(SubSeq(s, 1, Len(s) - 1)))

\* list.sort(key=final_total, reverse=True): stable, descending
RECURSIVE InsertByFinalTotal(_, _)
InsertByFinalTotal(x, s) ==
    IF s = <<>> THEN <<x>>
    ELSE IF x.final_total > Head(s).final_total THEN <<x>> \o s
    ELSE <<Head(s)>> \o InsertByFinalTotal(x, Tail(s))

RECURSIVE SortByFinalTotal(_)
SortByFinalTotal(s) ==
    IF s = <<>> THEN <<>>
    ELSE InsertByFinalTotal(s[Len(s)], SortByFinalTotal(SubSeq(s, 1, Len(s) - 1)))

(***************************************************************************)
(* engine.py: refine_dataset                                               *)
(***************************************************************************)
\* the slice [:3] of refine_dataset
top_candidates == 3

\* Python floats (IEEE 754 binary64) of refine_dataset, exactly: a float x >= 0
\* is the natural number x * 2^60 written in four limbs of 21 bits, least
\* significant first.  Every float below is 0 or lies in [2^-8, 2^6), so it is
\* a multiple of 2^-60 and its limbs fit.
Limb == 2097152

\* value * 2^60
Scaled(value) == <<0, 0, (value * 262144) % Limb, (value * 262144) \div Limb>>

BigAdd(x, y) ==
    LET s1 == x[1] + y[1]
        s2 == x[2] + y[2] + (s1 \div Limb)
        s3 == x[3] + y[3] + (s2 \div Limb)
        s4 == x[4] + y[4] + (s3 \div Limb)
    IN  <<s1 % Limb, s2 % Limb, s3 % Limb, s4>>

\* x divided by the small natural d: quotient q and remainder r
BigDivSmall(x, d) ==
    LET t4 == x[4]
        t3 == (t4 % d) * Limb + x[3]
        t2 == (t3 % d) * Limb + x[2]
        t1 == (t2 % d) * Limb + x[1]
    IN  [q |-> <<t1 \div d, t2 \div d, t3 \div d, t4 \div d>>, r |-> t1 % d]

\* x <= y
BigLeq(x, y) ==
    \/ x = y
    \/ \E i \in 1..4 : x[i] < y[i] /\ \A j \in (i + 1)..4 : x[j] = y[j]

RECURSIVE BitsOf(_)
BitsOf(n) == IF n = 0 THEN 0 ELSE 1 + BitsOf(n \div 2)

\* number of significant bits of x
BitLength(x) ==
    IF x[4] # 0 THEN 63 + BitsOf(x[4])
    ELSE IF x[3] # 0 THEN 42 + BitsOf(x[3])
    ELSE IF x[2] # 0 THEN 21 + BitsOf(x[2])
    ELSE BitsOf(x[1])

\* the float nearest to q + r/d (0 <= r < d), ties to even: 53 significant bits
RoundToFloat(q, r, d) ==
    LET bits == BitLength(q)
        s == IF bits > 53 THEN bits - 53 ELSE 0      \* bits dropped from q
        low == q[1] % (2 ^ s)
        below == <<q[1] - low, q[2], q[3], q[4]>>
        above == BigAdd(below, <<2 ^ s, 0, 0, 0>>)
        odd == (q[1] \div (2 ^ s)) % 2 = 1
        \* the dropped part against half a unit in the last place: -1, 0, 1
        side == IF s = 0
                THEN (IF 2 * r < d THEN -1 ELSE IF 2 * r > d THEN 1 ELSE 0)
                ELSE (IF 2 * low < 2 ^ s THEN -1
                      ELSE IF 2 * low > 2 ^ s THEN 1
                      ELSE IF r > 0 THEN 1 ELSE 0)
    IN  IF side = 1 \/ (side = 0 /\ odd) THEN above ELSE below

\* value / max
FloatRatio(value, max) ==
    LET d == BigDivSmall(Scaled(value), max) IN RoundToFloat(d.q, d.r, max)

\* x + y
FloatAdd(x, y) == RoundToFloat(BigAdd(x, y), 0, 1)

\* x / n
FloatOver(x, n) ==
    LET d == BigDivSmall(x, n) IN RoundToFloat(d.q, d.r, n)

\* sum(...) over the ideas from index i on, added left to right to acc
RECURSIVE SumRatios(_, _, _, _)
SumRatios(scored_ideas, dimension, i, acc) ==
    IF i > Len(scored_ideas) THEN acc
    ELSE LET detail == scored_ideas[i].scores[dimension]
         IN  SumRatios(scored_ideas, dimension, i + 1,
                       FloatAdd(acc, FloatRatio(detail.value, detail.max)))

\* refine_dataset: _avg_ratio(dimension)
AvgRatio(scored_ideas, dimension) ==
    FloatOver(SumRatios(scored_ideas, dimension, 1, Scaled(0)),
              IF Len(scored_ideas) > 1 THEN Len(scored_ideas) ELSE 1)

\* refine_dataset: weakest_dimension
WeakestDimension(scored_ideas) ==
    IF BigLeq(AvgRatio(scored_ideas, "demand"), AvgRatio(scored_ideas, "acquisition"))
    THEN "demand" ELSE "acquisition"

\* Retained with the red_kill rule only
RetainedUnlessRed(scored_ideas, i) ==
    /\ i <= Len(scored_ideas)
    /\ scored_ideas[i].recommendation # "red_kill"

\* refine_dataset: the entry at index i survives the filter
Retained(scored_ideas, i) ==
    /\ i <= Len(scored_ideas)
    /\ scored_ideas[i].recommendation # "red_kill"
    /\ ~(scored_ideas[i].critic_adjustment <= Tenths(-5))

\* a filter that keeps every entry
KeepEveryEntry(pool, scored_ideas) == pool

\* refine_dataset: filtered_dataset
FilteredDataset(pool, scored_ideas) ==
    SelectIdx(pool, [i \in 1..Len(pool) |-> Retained(scored_ideas, i)], 1)

\* the sort key without its second component
CandidateBeforeByDimension(dim, a, b) ==
    LET wa == IF dim = "demand" THEN a.scores.demand.value ELSE a.scores.acquisition.value
        wb == IF dim = "demand" THEN b.scores.demand.value ELSE b.scores.acquisition.value
    IN  wa > wb

\* refine_dataset: the sort key (-weakest.value, -total.value), ascending
CandidateBefore(dim, a, b) ==
    LET wa == IF dim = "demand" THEN a.scores.demand.value ELSE a.scores.acquisition.value
        wb == IF dim = "demand" THEN b.scores.demand.value ELSE b.scores.acquisition.value
    IN  \/ wa > wb
        \/ wa = wb /\ Total(a.scores).value > Total(b.scores).value

RECURSIVE InsertCandidate(_, _, _)
InsertCandidate(dim, x, s) ==
    IF s = <<>> THEN <<x>>
    ELSE IF CandidateBefore(dim, x, Head(s)) THEN <<x>> \o s
    ELSE <<Head(s)>> \o InsertCandidate(dim, x, Tail(s))

\* list.sort on scored_candidates: stable
RECURSIVE SortCandidates(_, _)
SortCandidates(dim, s) ==
    IF s = <<>> THEN <<>>
    ELSE InsertCandidate(dim, s[Len(s)], SortCandidates(dim, SubSeq(s, 1, Len(s) - 1)))

\* scored_candidates after the eviction rule has been applied to the candidates
ScoredCandidatesVetted(cfg, filtered, candidates) ==
    LET existing_titles == {filtered[i].title : i \in 1..Len(filtered)}
        fresh == SelectIdx(candidates,
                           [i \in 1..Len(candidates) |->
                               /\ candidates[i].title \notin existing_titles
                               /\ CriticEvaluate(critic_config, candidates[i]) > Tenths(-5)], 1)
    IN  [i \in 1..Len(fresh) |-> [idea |-> fresh[i], scores |-> ScoreIdea(cfg, fresh[i])]]

\* refine_dataset: scored_candidates, before the sort
ScoredCandidates(cfg, filtered, candidates) ==
    LET existing_titles == {filtered[i].title : i \in 1..Len(filtered)}
        fresh == SelectIdx(candidates,
                           [i \in 1..Len(candidates) |-> candidates[i].title \notin existing_titles], 1)
    IN  [i \in 1..Len(fresh) |-> [idea |-> fresh[i], scores |-> ScoreIdea(cfg, fresh[i])]]

\* refine_dataset without the slice [:3]
RefineDatasetAppendAll(cfg, pool, scored_ideas, weakest_dimension, candidates) ==
    IF AnyGreen(scored_ideas) THEN pool
    ELSE
        LET filtered == FilteredDataset(pool, scored_ideas)
            sorted == SortCandidates(weakest_dimension,
                                     ScoredCandidates(cfg, filtered, candidates))
        IN  filtered \o [i \in 1..Len(sorted) |-> sorted[i].idea]

\* OpportunityEngine.refine_dataset: the pool it leaves, given the outcome of
\* the comparison of the two means and what the researcher returns
RefineDataset(cfg, pool, scored_ideas, weakest_dimension, candidates) ==
    IF AnyGreen(scored_ideas) THEN pool
    ELSE
        LET filtered == FilteredDataset(pool, scored_ideas)
            sorted == SortCandidates(weakest_dimension,
                                     ScoredCandidates(cfg, filtered, candidates))
            n == IF Len(sorted) < top_candidates THEN Len(sorted) ELSE top_candidates
        IN  filtered \o [i \in 1..n |-> sorted[i].idea]

(***************************************************************************)
(* The ideas the model runs on                                             *)
(***************************************************************************)
\* "$49/month", acute pain, SMB audience, simple solution, no optional field
BaseIdea ==
    [title |-> "Beta",
     icp |-> {"smb", "small"},
     pain |-> [label |-> "acute", similarity |-> 70, mild_keyword |-> FALSE],
     solution |-> "low",
     revenue_model |-> [prices |-> <<49>>, contact_sales |-> FALSE, freemium |-> FALSE,
                        dollar |-> TRUE, plus |-> FALSE, dash |-> FALSE],
     source |-> NoValue,
     credibility |-> NoValue,
     text_words |-> {},
     source_date |-> [kind |-> "none", year |-> 0],
     search_volume |-> NoNumber,
     keyword_difficulty |-> NoNumber,
     trend_status |-> NoValue]

\* strong scores and a search volume of 1500
IdeaAlpha == [BaseIdea EXCEPT !.title = "Alpha", !.search_volume = Num(15000)]

\* strong scores, no external signal
IdeaBeta == BaseIdea

\* weak on every dimension, no price
IdeaGamma ==
    [BaseIdea EXCEPT !.title = "Gamma", !.icp = {},
                     !.pain = [label |-> "mild", similarity |-> 55, mild_keyword |-> TRUE],
                     !.solution = "high",
                     !.revenue_model = [prices |-> <<>>, contact_sales |-> FALSE,
                                        freemium |-> FALSE, dollar |-> FALSE,
                                        plus |-> FALSE, dash |-> FALSE]]

\* strong scores and a source five years old
IdeaDelta ==
    [BaseIdea EXCEPT !.title = "Delta",
                     !.source_date = [kind |-> "year", year |-> 2020]]

InitIdeas == {IdeaAlpha, IdeaBeta, IdeaGamma, IdeaDelta}

\* candidate with the title of a pool idea: high demand, unclear audience
CandBeta ==
    [BaseIdea EXCEPT !.title = "Beta", !.icp = {}, !.source = "https://trusted.com/article",
                     !.source_date = [kind |-> "year", year |-> 2025]]

\* candidate whose title differs from "Alpha" in case only: moderate pain
CandAlpha ==
    [BaseIdea EXCEPT !.title = "alpha",
                     !.pain = [label |-> "moderate", similarity |-> 62, mild_keyword |-> FALSE],
                     !.source_date = [kind |-> "bad", year |-> 0]]

\* candidate from a blocked source with a novelty keyword, freemium
CandGamma ==
    [BaseIdea EXCEPT !.title = "Gamma", !.icp = {"freelancer"},
                     !.pain = [label |-> "acute", similarity |-> 30, mild_keyword |-> FALSE],
                     !.source = "http://spam.com/list", !.text_words = {"wrapper"},
                     !.credibility = "High",
                     !.revenue_model = [prices |-> <<>>, contact_sales |-> FALSE,
                                        freemium |-> TRUE, dollar |-> FALSE,
                                        plus |-> FALSE, dash |-> FALSE]]

\* candidate with strong scores and a rising trend
CandDelta ==
    [BaseIdea EXCEPT !.title = "Delta", !.trend_status = "rising",
                     !.revenue_model = [prices |-> <<29, 99>>, contact_sales |-> FALSE,
                                        freemium |-> FALSE, dollar |-> TRUE,
                                        plus |-> FALSE, dash |-> TRUE]]

CandIdeas == {CandBeta, CandAlpha, CandGamma, CandDelta}

\* the initial pools: static dataset or dataset file
InitPools == SeqsUpTo(InitIdeas, MaxPool)

\* what a research source installed on the engine may return to
\* refine_dataset: any sequence of ideas (tests/test_engine_dataset.py
\* installs such a source)
ResearchResults == SeqsUpTo(CandIdeas, MaxCand)

\* Researcher._deduplicate_ideas leaves one idea for each lower-cased title
Deduplicated(s) ==
    \A i \in 1..Len(s) : \A j \in 1..Len(s) :
        i # j => Lower(s[i].title) # Lower(s[j].title)

\* what Researcher.search_micro_saas_ideas, the source run() is built with, may return
RunResearchResults == {s \in SeqsUpTo(CandIdeas, MaxRunCand) : Deduplicated(s)}

\* feedback files (ratings in tenths; a file may hold any number)
EmptyFeedback == [k \in {} |-> 0]
FeedbackFiles ==
    {[kind |-> "none", data |-> EmptyFeedback],
     [kind |-> "dict", data |-> ("Alpha" :> 0) @@ ("beta" :> 45)],
     [kind |-> "dict", data |-> ("Beta" :> 2000) @@ ("Delta" :> -3000)]}

(***************************************************************************)
(* OpportunityEngine.run                                                   *)
(***************************************************************************)
max_iterations == 3

Init ==
    /\ pc = "score"
    /\ scoring_config \in ScoringConfigs
    /\ critic_config \in CriticConfigs
    /\ \E file \in FeedbackFiles :
        /\ feedback = LoadFeedback(file)
        /\ feedback_path = (IF file.kind = "none" THEN NoValue ELSE "feedback.json")
        /\ files = (IF file.kind = "none" THEN NoFiles
                    ELSE [NoFiles EXCEPT !["feedback.json"] = file])
    /\ idea_dataset \in InitPools
    /\ iteration = 0
    /\ scored = <<>>
    /\ ideas = <<>>
    /\ passes = 0
    /\ research_calls = 0
    /\ new_ideas = <<>>
    /\ weakest = NoValue
    /\ arg = NoValue
    /\ ret = NoValue

\* ScorePass without the break on a green idea
ScorePassNoBreak ==
    /\ pc = "score"
    /\ iteration < max_iterations
    /\ scored' = RunIteration(scoring_config, critic_config, feedback, idea_dataset)
    /\ passes' = passes + 1
    /\ ideas' = ideas
    /\ pc' = "refine"
    /\ weakest' = NoValue
    /\ UNCHANGED <<feedback_path, files, scoring_config, critic_config, feedback, idea_dataset, iteration,
                   research_calls, new_ideas, arg, ret>>

\* run, loop body up to the break: scored = self._run_iteration(); green check
ScorePass ==
    /\ pc = "score"
    /\ iteration < max_iterations
    /\ scored' = RunIteration(scoring_config, critic_config, feedback, idea_dataset)
    /\ passes' = passes + 1
    /\ IF AnyGreen(scored')
       THEN ideas' = scored' /\ pc' = "sort"
       ELSE ideas' = ideas /\ pc' = "refine"
    /\ weakest' = NoValue
    /\ UNCHANGED <<feedback_path, files, scoring_config, critic_config, feedback, idea_dataset, iteration,
                   research_calls, new_ideas, arg, ret>>

\* Refine returning a fresh scoring of the refined pool
RefineRescore ==
    /\ pc = "refine"
    /\ LET weakest_dimension == WeakestDimension(scored)
       IN  /\ \E candidates \in RunResearchResults :
                idea_dataset' = RefineDataset(scoring_config, idea_dataset, scored,
                                              weakest_dimension, candidates)
           /\ weakest' = IF AnyGreen(scored) THEN NoValue ELSE weakest_dimension
    /\ research_calls' = IF AnyGreen(scored) THEN research_calls ELSE research_calls + 1
    /\ ideas' = RunIteration(scoring_config, critic_config, feedback, idea_dataset')
    /\ iteration' = iteration + 1
    /\ pc' = IF iteration + 1 < max_iterations THEN "score" ELSE "sort"
    /\ UNCHANGED <<feedback_path, files, scoring_config, critic_config, feedback, scored, passes, new_ideas,
                   arg, ret>>

\* run, rest of the loop body: self.refine_dataset(scored); ideas = scored
Refine ==
    /\ pc = "refine"
    /\ LET weakest_dimension == WeakestDimension(scored)
       IN  /\ \E candidates \in RunResearchResults :
                idea_dataset' = RefineDataset(scoring_config, idea_dataset, scored,
                                              weakest_dimension, candidates)
           /\ weakest' = IF AnyGreen(scored) THEN NoValue ELSE weakest_dimension
    /\ research_calls' = IF AnyGreen(scored) THEN research_calls ELSE research_calls + 1
    /\ ideas' = scored
    /\ iteration' = iteration + 1
    /\ pc' = IF iteration + 1 < max_iterations THEN "score" ELSE "sort"
    /\ UNCHANGED <<feedback_path, files, scoring_config, critic_config, feedback, scored, passes, new_ideas,
                   arg, ret>>

\* run, after the loop: ideas.sort(key=final_total, reverse=True); return ideas
SortReturn ==
    /\ pc = "sort"
    /\ ideas' = SortByFinalTotal(ideas)
    /\ pc' = "done"
    /\ weakest' = NoValue
    /\ UNCHANGED <<feedback_path, files, scoring_config, critic_config, feedback, idea_dataset, iteration,
                   scored, passes, research_calls, new_ideas, arg, ret>>

Next == ScorePass \/ Refine \/ SortReturn

Spec == Init /\ [][Next]_vars

(***************************************************************************)
(* refine_dataset called once on a freshly scored pool                     *)
(***************************************************************************)
\* the engine state outside a run
EngineAtRest ==
    /\ iteration = 0
    /\ ideas = <<>>
    /\ passes = 0
    /\ research_calls = 0
    /\ new_ideas = <<>>
    /\ weakest = NoValue
    /\ arg = NoValue
    /\ ret = NoValue

NothingLoaded ==
    /\ scoring_config = DefaultScoringConfig
    /\ critic_config = DefaultCriticConfig
    /\ feedback = EmptyFeedback
    /\ feedback_path = NoValue
    /\ files = NoFiles
    /\ idea_dataset = <<>>
    /\ scored = <<>>

InitRefine ==
    /\ pc = "refine_call"
    /\ scoring_config \in ScoringConfigs
    /\ critic_config \in CriticConfigs
    /\ feedback = EmptyFeedback      \* an engine built without a feedback file
    /\ feedback_path = NoValue
    /\ files = NoFiles
    /\ idea_dataset \in InitPools
    /\ scored = RunIteration(scoring_config, critic_config, feedback, idea_dataset)
    /\ EngineAtRest

\* engine.refine_dataset(scored), the candidates of the researcher kept for inspection
RefineDatasetCall ==
    /\ pc = "refine_call"
    /\ LET weakest_dimension == WeakestDimension(scored)
       IN  /\ \E candidates \in ResearchResults :
                /\ idea_dataset' = RefineDataset(scoring_config, idea_dataset, scored,
                                                 weakest_dimension, candidates)
                /\ new_ideas' = IF AnyGreen(scored) THEN <<>> ELSE candidates
           /\ weakest' = IF AnyGreen(scored) THEN NoValue ELSE weakest_dimension
    /\ research_calls' = IF AnyGreen(scored) THEN research_calls ELSE research_calls + 1
    /\ pc' = "refined"
    /\ UNCHANGED <<feedback_path, files, scoring_config, critic_config, feedback, scored, ideas, iteration,
                   passes, arg, ret>>

NextRefine == RefineDatasetCall

SpecRefine == InitRefine /\ [][NextRefine]_vars

(***************************************************************************)
(* _recommendation applied to given scores, total and signal               *)
(***************************************************************************)
\* IdeaScores with the maxima of a configuration, demand d and acquisition a
ScoresWith(cfg, d, a) ==
    [demand           |-> ScoreDetail(d, cfg.maxima.demand),
     acquisition      |-> ScoreDetail(a, cfg.maxima.acquisition),
     mvp_complexity   |-> ScoreDetail(10, cfg.maxima.mvp_complexity),
     competition      |-> ScoreDetail(10, cfg.maxima.competition),
     revenue_velocity |-> ScoreDetail(5, cfg.maxima.revenue_velocity)]

\* values on both sides of every cutoff of both configurations
DemandValues == {19, 20, 23, 24}
AcquisitionValues == {11, 12, 14, 15}
AdjustedTotals == {0, 500, 501, 577, 578, 649, 650, 749, 750, 770, 1000}

RecommendationInputs ==
    {[scores |-> ScoresWith(cfg, d, a), adjusted_total |-> t, positive_external_signal |-> sig] :
        cfg \in ScoringConfigs, d \in DemandValues, a \in AcquisitionValues,
        t \in AdjustedTotals, sig \in BOOLEAN}

InitRecommend ==
    /\ pc = "rec_call"
    /\ arg \in RecommendationInputs
    /\ ret = NoValue
    /\ NothingLoaded
    /\ iteration = 0 /\ ideas = <<>> /\ passes = 0 /\ research_calls = 0
    /\ new_ideas = <<>> /\ weakest = NoValue

ApplyRecommendation ==
    /\ pc = "rec_call"
    /\ ret' = Recommendation(arg.scores, arg.adjusted_total, arg.positive_external_signal)
    /\ pc' = "rec_done"
    /\ UNCHANGED <<feedback_path, files, scoring_config, critic_config, feedback, idea_dataset, iteration, scored,
                   ideas, passes, research_calls, new_ideas, weakest, arg>>

NextRecommend == ApplyRecommendation

SpecRecommend == InitRecommend /\ [][NextRecommend]_vars

(***************************************************************************)
(* _has_positive_external_signal applied to an idea                        *)
(***************************************************************************)
\* "intstr": the string "1000" resp. "50"; "badstr": a string that is no number
SearchVolumes ==
    {NoNumber, Num(9990), Num(9999), Num(10000), Num(15000),
     [kind |-> "intstr", tenths |-> 10000], [kind |-> "badstr", tenths |-> 0]}
KeywordDifficulties ==
    {NoNumber, Num(0), Num(500), Num(509), Num(510), Num(800),
     [kind |-> "intstr", tenths |-> 500], [kind |-> "badstr", tenths |-> 0]}
TrendStatuses == {NoValue, "rising", "Rising", "falling", "Unknown"}

SignalInputs ==
    {[BaseIdea EXCEPT !.search_volume = sv, !.keyword_difficulty = kd, !.trend_status = tr] :
        sv \in SearchVolumes, kd \in KeywordDifficulties, tr \in TrendStatuses}

InitSignal ==
    /\ pc = "sig_call"
    /\ arg \in SignalInputs
    /\ ret = NoValue
    /\ NothingLoaded
    /\ iteration = 0 /\ ideas = <<>> /\ passes = 0 /\ research_calls = 0
    /\ new_ideas = <<>> /\ weakest = NoValue

ApplySignal ==
    /\ pc = "sig_call"
    /\ ret' = HasPositiveExternalSignal(arg)
    /\ pc' = "sig_done"
    /\ UNCHANGED <<feedback_path, files, scoring_config, critic_config, feedback, idea_dataset, iteration, scored,
                   ideas, passes, research_calls, new_ideas, weakest, arg>>

NextSignal == ApplySignal

SpecSignal == InitSignal /\ [][NextSignal]_vars

(***************************************************************************)
(* UserFeedbackManager: add_rating and get_adjustment                      *)
(***************************************************************************)
FeedbackTitles == {"Alpha", "alpha", "ALPHA", "Beta"}

\* ratings in tenths: the scale 0..5 and values outside it (add_rating takes any)
Ratings == {0, 10, 25, 45, 50, 70, -10}

InitFeedback ==
    /\ pc = "fb_new"
    /\ \E file \in FeedbackFiles :
        /\ feedback = LoadFeedback(file)
        /\ feedback_path = (IF file.kind = "none" THEN NoValue ELSE "feedback.json")
        /\ files = (IF file.kind = "none" THEN NoFiles
                    ELSE [NoFiles EXCEPT !["feedback.json"] = file])
    /\ scoring_config = DefaultScoringConfig
    /\ critic_config = DefaultCriticConfig
    /\ idea_dataset = <<>>
    /\ scored = <<>>
    /\ EngineAtRest

AddRating ==
    /\ pc \in {"fb_new", "fb_set", "fb_got"}
    /\ \E title \in FeedbackTitles, rating \in Ratings :
        /\ feedback' = AddRatingTo(feedback, title, rating)
        /\ arg' = title
    /\ ret' = NoValue
    /\ pc' = "fb_set"
    /\ UNCHANGED <<feedback_path, files, scoring_config, critic_config, idea_dataset, iteration, scored, ideas,
                   passes, research_calls, new_ideas, weakest>>

GetAdjustmentCall ==
    /\ pc \in {"fb_new", "fb_set", "fb_got"}
    /\ \E title \in FeedbackTitles \cup {"Delta"} :
        /\ arg' = title
        /\ ret' = GetAdjustment(feedback, title)
    /\ pc' = "fb_got"
    /\ UNCHANGED <<feedback_path, files, scoring_config, critic_config, feedback, idea_dataset, iteration, scored,
                   ideas, passes, research_calls, new_ideas, weakest>>

NextFeedback == AddRating \/ GetAdjustmentCall

SpecFeedback == InitFeedback /\ [][NextFeedback]_vars

(***************************************************************************)
(* UserFeedbackManager: construction, add_rating and save_feedback         *)
(***************************************************************************)
\* what may lie at a path before a manager is built: nothing, a file that is
\* not JSON, a JSON list, an object with a value float() rejects, an object
\* of numbers
StoredFiles ==
    {NoFile,
     [kind |-> "corrupt", data |-> EmptyFeedback],
     [kind |-> "list", data |-> EmptyFeedback],
     [kind |-> "badvalue", data |-> ("Alpha" :> 0)]}
    \cup {file \in FeedbackFiles : file.kind = "dict"}

\* the path arguments of the constructor and of save_feedback
PathArguments == FeedbackPaths \cup {NoValue, ""}

\* UserFeedbackManager(feedback_path) over the files on disk
ManagerBuilt(path, disk, fb) ==
    fb = (IF path = NoValue \/ path = "" THEN EmptyFeedback ELSE LoadFeedback(disk[path]))

InitStore ==
    /\ pc = "fb_new"
    /\ feedback_path \in PathArguments
    /\ \E file \in StoredFiles : files = [NoFiles EXCEPT !["feedback.json"] = file]
    /\ ManagerBuilt(feedback_path, files, feedback)
    /\ scoring_config = DefaultScoringConfig
    /\ critic_config = DefaultCriticConfig
    /\ idea_dataset = <<>>
    /\ scored = <<>>
    /\ EngineAtRest

\* a new UserFeedbackManager(path) reading what is on disk now
NewManager ==
    /\ pc \in {"fb_new", "fb_set", "fb_saved", "fb_error"}
    /\ \E path \in PathArguments :
        /\ feedback_path' = path
        /\ ManagerBuilt(path, files, feedback')
        /\ arg' = path
    /\ ret' = NoValue
    /\ pc' = "fb_new"
    /\ UNCHANGED <<files, scoring_config, critic_config, idea_dataset, iteration, scored,
                   ideas, passes, research_calls, new_ideas, weakest>>

\* add_rating with a rating above the scale
StoreRating ==
    /\ pc \in {"fb_new", "fb_set", "fb_saved", "fb_error"}
    /\ feedback' = AddRatingTo(feedback, "Alpha", 70)
    /\ arg' = "Alpha"
    /\ ret' = NoValue
    /\ pc' = "fb_set"
    /\ UNCHANGED <<feedback_path, files, scoring_config, critic_config, idea_dataset,
                   iteration, scored, ideas, passes, research_calls, new_ideas, weakest>>

\* save_feedback(path): raises ValueError without a target path, else writes
\* the map to the target path (paths of the model are writable)
SaveFeedback ==
    /\ pc \in {"fb_new", "fb_set", "fb_saved", "fb_error"}
    /\ \E path \in PathArguments :
        LET target_path == TargetPath(path, feedback_path)
        IN  /\ arg' = path
            /\ IF target_path = NoValue
               THEN /\ ret' = "ValueError"
                    /\ pc' = "fb_error"
                    /\ files' = files
               ELSE /\ ret' = NoValue
                    /\ pc' = "fb_saved"
                    /\ files' = [files EXCEPT ![target_path] = DumpedFeedback(feedback)]
    /\ UNCHANGED <<feedback_path, feedback, scoring_config, critic_config, idea_dataset,
                   iteration, scored, ideas, passes, research_calls, new_ideas, weakest>>

NextStore == NewManager \/ StoreRating \/ SaveFeedback

SpecStore == InitStore /\ [][NextStore]_vars

(***************************************************************************)
(* Properties of run                                                       *)
(***************************************************************************)
GreenIn(list) == \E i \in 1..Len(list) : list[i].recommendation = "green_build"

TitleSeq(list) == [i \in 1..Len(list) |-> list[i].title]

Count(list, x) == Cardinality({i \in 1..Len(list) : list[i] = x})

IsPermutation(a, b) ==
    /\ Len(a) = Len(b)
    /\ \A x \in Range(a) \cup Range(b) : Count(a, x) = Count(b, x)

\* the unbounded sum total.value + critic_adjustment + feedback_adjustment, in tenths
RawSum(s) == Tenths(Total(s.scores).value) + s.critic_adjustment + s.feedback_adjustment

ClampedRight(s) ==
    LET hi == Tenths(Total(s.scores).max)
        lo == IF RawSum(s) > 0 THEN RawSum(s) ELSE 0
    IN  /\ s.final_total = (IF lo < hi THEN lo ELSE hi)
        /\ 0 <= s.final_total
        /\ s.final_total <= hi

\* C1: every idea scored by _run_iteration or generate_opportunities has
\* final_total = min(max(total.value + critic + feedback, 0), total.max), hence
\* 0 <= final_total <= total.max, whatever the adjustments are.
C1_FinalTotalClamped ==
    /\ \A i \in 1..Len(scored) : ClampedRight(scored[i])
    /\ LET generated == GenerateOpportunities(scoring_config, critic_config, feedback, idea_dataset)
       IN  \A i \in 1..Len(generated) : ClampedRight(generated[i])

\* one pass scored an idea whose sum is below 0 and one whose sum is above the maximum
C1_Witness ==
    /\ \E i \in 1..Len(scored) : RawSum(scored[i]) < 0 /\ scored[i].final_total = 0
    /\ \E i \in 1..Len(scored) :
        /\ RawSum(scored[i]) > Tenths(Total(scored[i].scores).max)
        /\ scored[i].final_total = Tenths(Total(scored[i].scores).max)

\* steps run still has to take, at most: decreases with every step
RunVariant ==
    3 * (max_iterations - iteration)
      + (CASE pc = "score" -> 3 [] pc = "refine" -> 2 [] pc = "sort" -> 1 [] OTHER -> 0)

\* C4: run makes at most 3 scoring passes and terminates (every step lowers a
\* variant that is never negative, and run is never stuck before its return);
\* once a pass yields a green_build idea run goes straight to its return with
\* that pass's results: no further pass, no research call, no change of the
\* pool, and refine_dataset applied to such a list leaves the pool as it is.
C4_RunBoundedStopsOnGreen ==
    /\ [](passes <= 3 /\ iteration <= 3 /\ RunVariant >= 0)
    /\ [](pc \in {"score", "refine", "sort", "done"} /\ (pc = "score" => iteration < 3))
    /\ [][RunVariant' < RunVariant]_vars
    /\ [](GreenIn(scored) =>
            /\ pc \in {"sort", "done"}
            /\ IsPermutation(ideas, scored)
            /\ \A candidates \in RunResearchResults, dimension \in {"demand", "acquisition"} :
                RefineDataset(scoring_config, idea_dataset, scored, dimension, candidates)
                    = idea_dataset)
    /\ [][GreenIn(scored) =>
            /\ idea_dataset' = idea_dataset
            /\ research_calls' = research_calls
            /\ passes' = passes
            /\ scored' = scored]_vars

\* run returned after its second pass found a green idea among refined-in candidates
C4_Witness ==
    /\ pc = "done"
    /\ GreenIn(scored)
    /\ passes = 2
    /\ research_calls = 1

\* C5 as stated: with no green idea, the titles of the returned list are the
\* titles of the pool at the moment run returns.
C5_ReturnedScoredAgainstLatestPool ==
    (pc = "done" /\ ~GreenIn(ideas)) => IsPermutation(TitleSeq(ideas), TitleSeq(idea_dataset))

\* C5 amended: with no green idea, the list run returns is the result of the
\* last scoring pass: its titles are those of the pool as it stood before the
\* last refinement, which is not scored again.
C5_ReturnedListIsLastPass ==
    /\ [][(pc = "refine" /\ pc' = "sort") =>
            /\ ideas' = scored
            /\ TitleSeq(ideas') = TitleSeq(idea_dataset)]_vars
    /\ [][(pc = "sort" /\ ~GreenIn(ideas)) =>
            /\ IsPermutation(ideas', ideas)
            /\ idea_dataset' = idea_dataset]_vars

\* run returned without a green idea and the last refinement changed the pool
C5_Witness ==
    /\ pc = "done"
    /\ ~GreenIn(ideas)
    /\ passes = 3
    /\ ~IsPermutation(TitleSeq(ideas), TitleSeq(idea_dataset))

\* C9: the list run returns is in non-increasing order of final_total, after an
\* early stop and after 3 iterations alike, and is a permutation of the results
\* of one scoring pass.
C9_ReturnedSorted ==
    pc = "done" =>
        /\ \A i \in 1..Len(ideas) : \A j \in 1..Len(ideas) :
                i < j => ideas[i].final_total >= ideas[j].final_total
        /\ IsPermutation(ideas, scored)

\* run returned after 3 iterations and the sort moved an idea
C9_Witness ==
    /\ pc = "done"
    /\ passes = 3
    /\ Len(ideas) >= 2
    /\ ideas # scored
    /\ \E i \in 1..Len(ideas) : ideas[i].final_total > ideas[Len(ideas)].final_total

(***************************************************************************)
(* Properties of _recommendation and _has_positive_external_signal         *)
(***************************************************************************)
\* the four gating conditions of green_build, as exact fractions
\* (0.75 = 3/4, 0.8 = 4/5, 0.65 = 13/20; totals in tenths)
TotalAtGreen(a) == 4 * a.adjusted_total >= 3 * Tenths(Total(a.scores).max)
DemandAtGreen(a) == 5 * a.scores.demand.value >= 4 * a.scores.demand.max
AcquisitionAtGreen(a) == 4 * a.scores.acquisition.value >= 3 * a.scores.acquisition.max
TotalAtYellow(a) == 20 * a.adjusted_total >= 13 * Tenths(Total(a.scores).max)

AllGreenConditions(a) ==
    /\ TotalAtGreen(a)
    /\ DemandAtGreen(a)
    /\ AcquisitionAtGreen(a)
    /\ a.positive_external_signal

GreenConditionsHolding(a) ==
    Cardinality({c \in {"total", "demand", "acquisition", "signal"} :
        \/ c = "total" /\ TotalAtGreen(a)
        \/ c = "demand" /\ DemandAtGreen(a)
        \/ c = "acquisition" /\ AcquisitionAtGreen(a)
        \/ c = "signal" /\ a.positive_external_signal})

\* C2: _recommendation returns exactly one of the three tiers: green_build iff
\* the four gating conditions hold together, yellow_validate iff not green and
\* final_total >= 0.65 * total.max, red_kill otherwise; with one of the four
\* conditions failing the result is never green_build.
C2_RecommendationTiers ==
    pc = "rec_done" =>
        /\ ret \in {"green_build", "yellow_validate", "red_kill"}
        /\ (ret = "green_build") <=> AllGreenConditions(arg)
        /\ (ret = "yellow_validate") <=> (~AllGreenConditions(arg) /\ TotalAtYellow(arg))
        /\ (ret = "red_kill") <=> (~AllGreenConditions(arg) /\ ~TotalAtYellow(arg))
        /\ GreenConditionsHolding(arg) = 3 => ret # "green_build"

\* only the external signal is missing: the result is yellow_validate
C2_Witness ==
    /\ pc = "rec_done"
    /\ TotalAtGreen(arg) /\ DemandAtGreen(arg) /\ AcquisitionAtGreen(arg)
    /\ ~arg.positive_external_signal
    /\ ret = "yellow_validate"

\* the numeric value of an optional field, if it has one
HasNumber(v) == v.kind \in {"num", "intstr"}

\* C3 as stated: the positive external signal holds exactly when the search
\* volume is >= 1000, or the keyword difficulty is <= 50, or the trend status
\* is "rising" (read without regard to letter case); a difficulty above 50
\* such as 50.9, with no other signal, gives no signal.
C3_SignalExactlyWhen ==
    pc = "sig_done" =>
        (ret <=> \/ HasNumber(arg.search_volume) /\ arg.search_volume.tenths >= Tenths(1000)
                 \/ HasNumber(arg.keyword_difficulty) /\ arg.keyword_difficulty.tenths <= Tenths(50)
                 \/ Lower(arg.trend_status) = "rising")

(***************************************************************************)
(* Properties of refine_dataset                                            *)
(***************************************************************************)
NoDuplicateTitles(pool) ==
    \A i \in 1..Len(pool) : \A j \in 1..Len(pool) : i # j => pool[i].title # pool[j].title

\* C6 as stated: a pool without two entries of the same title has none after
\* refine_dataset, whatever sequence of candidates the research source
\* returns, a sequence that repeats a title included.
C6_NoDuplicateTitleAdmitted ==
    [][NoDuplicateTitles(idea_dataset) => NoDuplicateTitles(idea_dataset')]_vars

\* the indices of the pool entries the filter must keep
KeptIndices(pool, list) ==
    {i \in 1..Len(pool) :
        /\ list[i].recommendation # "red_kill"
        /\ list[i].critic_adjustment > Tenths(-5)}

\* the j-th smallest element of a set of indices
NthIndex(K, j) == CHOOSE i \in K : Cardinality({m \in K : m < i}) = j - 1

\* C7: refine_dataset on a list without a green idea removes every pool entry
\* whose scored counterpart is red_kill or has critic_adjustment <= -5 and
\* keeps every other entry: the new pool starts with exactly the other entries,
\* in order, and everything after them is a candidate of the research source.
C7_FilterRemovesRedAndCriticised ==
    [][(pc = "refine" /\ ~GreenIn(scored)) =>
        LET K == KeptIndices(idea_dataset, scored)
            k == Cardinality(K)
        IN  /\ Len(scored) = Len(idea_dataset)
            /\ Len(idea_dataset') >= k
            /\ \A j \in 1..k : idea_dataset'[j] = idea_dataset[NthIndex(K, j)]
            /\ \A j \in (k + 1)..Len(idea_dataset') : idea_dataset'[j] \in CandIdeas]_vars

\* a refinement dropped a yellow idea whose critic adjustment is exactly -5
\* and kept another yellow idea
C7_Witness ==
    /\ pc = "score"
    /\ iteration >= 1
    /\ ~GreenIn(scored)
    /\ \E i \in 1..Len(scored) :
        /\ scored[i].recommendation = "yellow_validate"
        /\ scored[i].critic_adjustment = Tenths(-5)
        /\ \A j \in 1..Len(idea_dataset) : idea_dataset[j].title # scored[i].title
    /\ \E i \in 1..Len(scored) :
        /\ scored[i].recommendation = "yellow_validate"
        /\ scored[i].critic_adjustment > Tenths(-5)
        /\ \E j \in 1..Len(idea_dataset) : idea_dataset[j].title = scored[i].title

\* the candidates of a refinement that are not in the filtered pool, in the
\* order the research source returned them
Eligible(kept, candidates) ==
    SelectIdx(candidates,
              [i \in 1..Len(candidates) |->
                  \A j \in 1..Len(kept) : kept[j].title # candidates[i].title], 1)

\* candidate a ranks at least as high as b: weakest-dimension value, then total
RanksAtLeast(cfg, dim, a, b) ==
    LET sa == ScoreIdea(cfg, a)
        sb == ScoreIdea(cfg, b)
        wa == IF dim = "demand" THEN sa.demand.value ELSE sa.acquisition.value
        wb == IF dim = "demand" THEN sb.demand.value ELSE sb.acquisition.value
    IN  \/ wa > wb
        \/ wa = wb /\ Total(sa).value >= Total(sb).value

\* C8: refine_dataset appends exactly the first min(3, n) of the n candidates
\* whose title is not in the filtered pool, in descending order of
\* (weakest-dimension value, total value); no candidate left out ranks above
\* an appended one.
C8_TopThreeByWeakestDimension ==
    [][(pc = "refine_call" /\ ~GreenIn(scored)) =>
        LET k == Cardinality(KeptIndices(idea_dataset, scored))
            kept == SubSeq(idea_dataset', 1, k)
            appended == SubSeq(idea_dataset', k + 1, Len(idea_dataset'))
            eligible == Eligible(kept, new_ideas')
            n == Len(eligible)
        IN  /\ Len(appended) = (IF n < 3 THEN n ELSE 3)
            /\ \A x \in Range(appended) : Count(appended, x) <= Count(eligible, x)
            /\ \A i \in 1..Len(appended) : \A j \in 1..Len(appended) :
                    i < j => RanksAtLeast(scoring_config, weakest', appended[i], appended[j])
            /\ \A x \in Range(eligible) :
                    Count(appended, x) < Count(eligible, x) =>
                        \A i \in 1..Len(appended) :
                            RanksAtLeast(scoring_config, weakest', appended[i], x)]_vars

\* four distinct candidates were eligible, three were appended, the one left
\* out was not the last returned, and two appended ones tie on the weakest dimension
C8_Witness ==
    /\ pc = "refined"
    /\ ~GreenIn(scored)
    /\ Len(new_ideas) = 4
    /\ Cardinality(Range(new_ideas)) = 4
    /\ Len(idea_dataset) = 3
    /\ Range(idea_dataset) \subseteq Range(new_ideas)
    /\ new_ideas[4] \in Range(idea_dataset)
    /\ weakest = "demand"
    /\ \E i \in 1..2 :
        ScoreIdea(scoring_config, idea_dataset[i]).demand.value
            = ScoreIdea(scoring_config, idea_dataset[i + 1]).demand.value

(***************************************************************************)
(* Properties of the feedback store                                        *)
(***************************************************************************)
InScale(r) == 0 <= r /\ r <= 50

CaseGroups == {{"Alpha", "alpha", "ALPHA"}, {"Beta", "beta"}, {"Delta", "delta"}}
CaseVariants(t) == UNION {g \in CaseGroups : t \in g}
AllFeedbackTitles == UNION CaseGroups

\* C11: the feedback store is keyed without regard to letter case:
\* get_adjustment agrees on titles that differ only in case, and add_rating(t, r)
\* overwrites the rating stored under any casing of t, leaves every other
\* title's rating alone, and changes nothing when r is the rating already stored.
C11_CaseInsensitiveStore ==
    /\ [](\A t1 \in AllFeedbackTitles : \A t2 \in CaseVariants(t1) :
            GetAdjustment(feedback, t1) = GetAdjustment(feedback, t2))
    /\ [][pc' = "fb_set" =>
            \E r \in Ratings :
                /\ \A t \in CaseVariants(arg') :
                    /\ GetAdjustment(feedback', t) = 2 * r - 50
                    /\ GetAdjustment(feedback, t) = 2 * r - 50
                       /\ DOMAIN feedback \cap CaseVariants(arg') # {}
                            => feedback' = feedback
                /\ \A t \in AllFeedbackTitles \ CaseVariants(arg') :
                    GetAdjustment(feedback', t) = GetAdjustment(feedback, t)
                /\ Cardinality(DOMAIN feedback' \cap CaseVariants(arg')) = 1
                /\ DOMAIN feedback' \ CaseVariants(arg') = DOMAIN feedback \ CaseVariants(arg')]_vars

\* a rating loaded under "Alpha" was overwritten through the casing "ALPHA",
\* and the title was then recorded again
C11_Witness ==
    /\ pc = "fb_set"
    /\ arg = "ALPHA"
    /\ DOMAIN feedback = {"alpha", "beta"}
    /\ feedback["alpha"] = 70
    /\ feedback["beta"] = 45

(***************************************************************************)
(* Properties of save_feedback and of the stored map                       *)
(***************************************************************************)
\* C12: save_feedback raises when neither its argument nor the constructor
\* gave a path, and then leaves the feedback map and the disk as they were;
\* given a path it writes the whole current map to that path and nowhere
\* else, also for a manager built without a path.
C12_SaveFeedbackNeedsPath ==
    [][pc' \in {"fb_saved", "fb_error"} =>
        LET explicit == arg' \in FeedbackPaths
            known == explicit \/ feedback_path \in FeedbackPaths
        IN  /\ feedback' = feedback
            /\ ~known => /\ pc' = "fb_error"
                         /\ ret' = "ValueError"
                         /\ files' = files
            /\ known => /\ pc' = "fb_saved"
                        /\ ret' # "ValueError"
            /\ explicit => /\ files'[arg'] = [kind |-> "dict", data |-> feedback]
                           /\ \A p \in FeedbackPaths \ {arg'} : files'[p] = files[p]]_vars

\* a manager built without a path recorded a rating and saved it to an
\* explicit path, while the constructor argument of another run is untouched
C12_Witness ==
    /\ pc = "fb_saved"
    /\ feedback_path = NoValue
    /\ arg = "out.json"
    /\ DOMAIN feedback = {"alpha"}
    /\ files["out.json"] = [kind |-> "dict", data |-> feedback]
    /\ files["feedback.json"].kind = "dict"
    /\ files["feedback.json"].data # feedback

\* C13 as stated: after any loads and add_rating calls every key of the
\* feedback map is a lower-cased title, every stored rating lies in [0,5] and
\* every feedback adjustment lies in [-5,+5].
C13_StoredRatingsInScale ==
    /\ \A k \in DOMAIN feedback :
        /\ k \in {Lower(t) : t \in AllFeedbackTitles}
        /\ 0 <= feedback[k] /\ feedback[k] <= 50
    /\ \A t \in AllFeedbackTitles :
        -50 <= GetAdjustment(feedback, t) /\ GetAdjustment(feedback, t) <= 50

(***************************************************************************)
(* Critic.evaluate and evaluate_with_rationale on one idea                 *)
(***************************************************************************)
\* the configuration of tests/test_critic_enhanced.py with its novelty keyword
\* written with a capital letter
CapitalisedCriticConfig == [ListedCriticConfig EXCEPT !.novelty_keywords = {"Wrapper"}]

CriticSetups == CriticConfigs \cup {CapitalisedCriticConfig}

CriticSources ==
    {NoValue, "https://trusted.com/article", "http://spam.com/list",
     "https://www.spam.com.trusted.com"}
CriticCredibilities == {NoValue, "high", "High", "low", "medium"}
CriticTexts == {{}, {"wrapper"}, {"tool"}}
CriticDates ==
    {[kind |-> "none", year |-> 0], [kind |-> "bad", year |-> 0]}
    \cup {[kind |-> "year", year |-> y] : y \in (CurrentYear - 5)..(CurrentYear + 1)}

CriticIdeas ==
    {[BaseIdea EXCEPT !.source = src, !.credibility = cred, !.text_words = words,
                      !.source_date = date] :
        src \in CriticSources, cred \in CriticCredibilities,
        words \in CriticTexts, date \in CriticDates}

InitCritic ==
    /\ pc = "critic_call"
    /\ critic_config \in CriticSetups
    /\ arg \in CriticIdeas
    /\ ret = NoValue
    /\ scoring_config = DefaultScoringConfig
    /\ feedback = EmptyFeedback
    /\ feedback_path = NoValue
    /\ files = NoFiles
    /\ idea_dataset = <<arg>>        \* an engine whose pool is this idea
    /\ scored = <<>>
    /\ iteration = 0 /\ ideas = <<>> /\ passes = 0 /\ research_calls = 0
    /\ new_ideas = <<>> /\ weakest = NoValue

\* critic.evaluate(idea)
ApplyEvaluate ==
    /\ pc = "critic_call"
    /\ ret' = CriticEvaluate(critic_config, arg)
    /\ pc' = "critic_done"
    /\ UNCHANGED <<feedback_path, files, scoring_config, critic_config, feedback, idea_dataset,
                   iteration, scored, ideas, passes, research_calls, new_ideas, weakest, arg>>

\* critic.evaluate_with_rationale(idea)
ApplyEvaluateWithRationale ==
    /\ pc = "critic_call"
    /\ ret' = EvaluateWithRationale(critic_config, arg)
    /\ pc' = "critic_explained"
    /\ UNCHANGED <<feedback_path, files, scoring_config, critic_config, feedback, idea_dataset,
                   iteration, scored, ideas, passes, research_calls, new_ideas, weakest, arg>>

\* engine._run_iteration() over the pool
ScoreIdeaPool ==
    /\ pc = "critic_call"
    /\ scored' = RunIteration(scoring_config, critic_config, feedback, idea_dataset)
    /\ passes' = passes + 1
    /\ pc' = "critic_scored"
    /\ UNCHANGED <<feedback_path, files, scoring_config, critic_config, feedback, idea_dataset,
                   iteration, ideas, research_calls, new_ideas, weakest, arg, ret>>

NextCritic == ApplyEvaluate \/ ApplyEvaluateWithRationale \/ ScoreIdeaPool

SpecCritic == InitCritic /\ [][NextCritic]_vars

(***************************************************************************)
(* Properties of the critic                                                *)
(***************************************************************************)
\* the substrings of the extracted source domain among the modelled list entries
DomainHolds(idea, entry) ==
    \/ idea.source = "https://trusted.com/article" /\ entry = "trusted.com"
    \/ idea.source = "http://spam.com/list" /\ entry = "spam.com"
    \/ idea.source = "https://www.spam.com.trusted.com" /\ entry \in {"spam.com", "trusted.com"}

ExpectedDomainTerm(ccfg, idea) ==
    (IF \E e \in ccfg.trusted_domains : DomainHolds(idea, e)
        THEN 10 * ccfg.bonuses.trusted_domain ELSE 0)
    + (IF \E e \in ccfg.blocked_domains : DomainHolds(idea, e)
        THEN 10 * ccfg.penalties.blocked_domain ELSE 0)

ExpectedCredibilityTerm(idea) ==
    IF idea.credibility \in {"high", "High"} THEN 20
    ELSE IF idea.credibility \in {"low", "Low"} THEN -20
    ELSE 0

\* a keyword occurs in the text whatever the letter case of either
ExpectedNoveltyTerm(ccfg, idea) ==
    IF \E k \in ccfg.novelty_keywords : Lower(k) \in idea.text_words
    THEN 10 * ccfg.penalties.novelty ELSE 0

ExpectedRecencyTerm(ccfg, idea) ==
    LET gap == CurrentYear - idea.source_date.year
    IN  IF idea.source_date.kind # "year" THEN 0
        ELSE IF gap > 3 THEN 10 * ccfg.penalties.stale
        ELSE IF gap <= 1 THEN 10 * ccfg.bonuses.recent
        ELSE 0

\* C14 as stated: evaluate returns the sum of the domain term (trusted bonus
\* and blocked penalty, both may fire), the credibility-label term (+2 high,
\* -2 low, 0 otherwise), the novelty term (penalty if a novelty keyword occurs
\* in title + solution whatever the letter case) and the recency term; an
\* idea with no signal gets 0.
C14_EvaluateIsSumOfTerms ==
    pc = "critic_done" =>
        ret = ExpectedDomainTerm(critic_config, arg) + ExpectedCredibilityTerm(arg)
              + ExpectedNoveltyTerm(critic_config, arg) + ExpectedRecencyTerm(critic_config, arg)

FiredSignals(ccfg, idea) ==
    {sig \in {"trusted", "blocked", "credibility", "novelty", "stale", "recent"} :
        \/ sig = "trusted" /\ \E e \in ccfg.trusted_domains : DomainHolds(idea, e)
        \/ sig = "blocked" /\ \E e \in ccfg.blocked_domains : DomainHolds(idea, e)
        \/ sig = "credibility" /\ ExpectedCredibilityTerm(idea) # 0
        \/ sig = "novelty" /\ idea.text_words \cap ccfg.novelty_keywords # {}
        \/ sig = "stale" /\ idea.source_date.kind = "year"
                         /\ CurrentYear - idea.source_date.year > 3
        \/ sig = "recent" /\ idea.source_date.kind = "year"
                          /\ CurrentYear - idea.source_date.year <= 1}

IdeaStaleLow ==
    [BaseIdea EXCEPT !.title = "Epsilon", !.credibility = "low",
                     !.source_date = [kind |-> "year", year |-> CurrentYear - 5]]

\* the same signals on the weak idea
IdeaStaleLowWeak ==
    [IdeaGamma EXCEPT !.title = "Zeta", !.credibility = "low",
                      !.source_date = [kind |-> "year", year |-> CurrentYear - 5]]

StaleLowIdeas == {IdeaStaleLow, IdeaStaleLowWeak}

EvictPools ==
    {pool \in SeqsUpTo(StaleLowIdeas \cup {IdeaAlpha, IdeaBeta}, MaxPool) :
        \E i \in 1..Len(pool) : pool[i] \in StaleLowIdeas}

InitEvict ==
    /\ pc = "score"
    /\ scoring_config \in ScoringConfigs
    /\ critic_config = DefaultCriticConfig
    /\ \E file \in FeedbackFiles :
        /\ feedback = LoadFeedback(file)
        /\ feedback_path = (IF file.kind = "none" THEN NoValue ELSE "feedback.json")
        /\ files = (IF file.kind = "none" THEN NoFiles
                    ELSE [NoFiles EXCEPT !["feedback.json"] = file])
    /\ idea_dataset \in EvictPools
    /\ scored = <<>>
    /\ EngineAtRest

SpecEvict == InitEvict /\ [][Next]_vars

EmptyObject == [k \in {} |-> 0]

MissingFile == [kind |-> "missing", data |-> EmptyObject]
CorruptFile == [kind |-> "corrupt", data |-> EmptyObject]
ObjectFile(data) == [kind |-> "object", data |-> data]

\* scoring configuration files: absent, not JSON, and objects giving nothing,
\* one maximum (lowered, zero, below zero), one bucket threshold, one band of
\* one adjustment table, or every table
ScoringConfigFiles ==
    {MissingFile, CorruptFile,
     ObjectFile(EmptyObject),
     ObjectFile([maxima |-> [demand |-> 25]]),
     ObjectFile([maxima |-> [competition |-> 0]]),
     ObjectFile([maxima |-> [revenue_velocity |-> -1]]),
     ObjectFile([price_band_buckets |-> [low |-> 40]]),
     ObjectFile([price_band_adjustments |-> [demand |-> [high |-> -30]]]),
     ObjectFile(TightScoringConfig)}

\* critic configuration files: absent, not JSON, and objects giving nothing,
\* the trusted list alone, lists with a penalties object holding "novelty"
\* alone, or every key
CriticConfigFiles ==
    {MissingFile, CorruptFile,
     ObjectFile(EmptyObject),
     ObjectFile([trusted_domains |-> {"trusted.com"}]),
     ObjectFile([blocked_domains |-> {"spam.com"}, novelty_keywords |-> {"wrapper"},
                 penalties |-> [novelty |-> -3]]),
     ObjectFile(ListedCriticConfig)}

\* researcher configuration files
ResearcherConfigFiles ==
    {MissingFile, CorruptFile,
     ObjectFile(EmptyObject),
     ObjectFile([min_credibility |-> "High"])}

\* Researcher._load_config: every failure gives {}
LoadResearcherConfig(file) ==
    IF file.kind \in {"missing", "corrupt"} THEN EmptyObject ELSE file.data

\* Researcher.__init__ without min_credibility and urls arguments
ResearcherSettings(config) ==
    [min_credibility |->
        Lower(IF "min_credibility" \in DOMAIN config THEN config.min_credibility ELSE "low"),
     source_urls |-> IF "source_urls" \in DOMAIN config THEN config.source_urls ELSE {}]

ConfigIdeas ==
    InitIdeas \cup CandIdeas \cup {[BaseIdea EXCEPT !.revenue_model.prices = <<900>>]}

InitConfig ==
    /\ pc = "cfg_new"
    /\ arg \in {[component |-> "scoring", file |-> f] : f \in ScoringConfigFiles}
         \cup {[component |-> "critic", file |-> f] : f \in CriticConfigFiles}
         \cup {[component |-> "researcher", file |-> f] : f \in ResearcherConfigFiles}
    /\ scoring_config = NoValue
    /\ critic_config = NoValue
    /\ ret = NoValue
    /\ feedback = EmptyFeedback
    /\ feedback_path = NoValue
    /\ files = NoFiles
    /\ idea_dataset = <<>>
    /\ scored = <<>>
    /\ iteration = 0 /\ ideas = <<>> /\ passes = 0 /\ research_calls = 0
    /\ new_ideas = <<>> /\ weakest = NoValue

\* ScoringEngine(config_path)
BuildScoringEngine ==
    /\ pc = "cfg_new"
    /\ arg.component = "scoring"
    /\ IF arg.file.kind = "corrupt"
       THEN /\ ret' = LoadScoringConfig(arg.file)
            /\ pc' = "cfg_failed"
            /\ UNCHANGED scoring_config
       ELSE /\ scoring_config' = LoadScoringConfig(arg.file)
            /\ pc' = "cfg_scoring"
            /\ UNCHANGED ret
    /\ UNCHANGED <<feedback_path, files, critic_config, feedback, idea_dataset, iteration,
                   scored, ideas, passes, research_calls, new_ideas, weakest, arg>>

\* scoring_engine.score_idea(idea)
ScoreWithConfig ==
    /\ pc = "cfg_scoring"
    /\ \E idea \in ConfigIdeas :
        ret' = [input |-> idea, output |-> ScoreIdea(scoring_config, idea)]
    /\ pc' = "cfg_scored"
    /\ UNCHANGED <<feedback_path, files, scoring_config, critic_config, feedback, idea_dataset,
                   iteration, scored, ideas, passes, research_calls, new_ideas, weakest, arg>>

\* Critic(config_path)
BuildCritic ==
    /\ pc = "cfg_new"
    /\ arg.component = "critic"
    /\ critic_config' = CriticAttributes(LoadCriticConfig(arg.file))
    /\ pc' = "cfg_critic"
    /\ UNCHANGED <<feedback_path, files, scoring_config, feedback, idea_dataset, iteration,
                   scored, ideas, passes, research_calls, new_ideas, weakest, arg, ret>>

\* critic.evaluate(idea)
EvaluateWithConfig ==
    /\ pc = "cfg_critic"
    /\ \E idea \in CriticIdeas :
        ret' = [input |-> idea, output |-> EvaluateOutcome(critic_config, idea)]
    /\ pc' = "cfg_evaluated"
    /\ UNCHANGED <<feedback_path, files, scoring_config, critic_config, feedback, idea_dataset,
                   iteration, scored, ideas, passes, research_calls, new_ideas, weakest, arg>>

\* Researcher(config_path=...)
BuildResearcher ==
    /\ pc = "cfg_new"
    /\ arg.component = "researcher"
    /\ ret' = ResearcherSettings(LoadResearcherConfig(arg.file))
    /\ pc' = "cfg_researcher"
    /\ UNCHANGED <<feedback_path, files, scoring_config, critic_config, feedback, idea_dataset,
                   iteration, scored, ideas, passes, research_calls, new_ideas, weakest, arg>>

NextConfig ==
    \/ BuildScoringEngine
    \/ ScoreWithConfig
    \/ BuildCritic
    \/ EvaluateWithConfig
    \/ BuildResearcher

SpecConfig == InitConfig /\ [][NextConfig]_vars

\* C18: a partially specified configuration is merged over the defaults field
\* by field.  Critic: every list the file does not give, and every penalty or
\* bonus magnitude it does not give, is at its default, and evaluate returns
\* an adjustment.  Scoring engine: every maximum, every price-band threshold
\* and every band of every adjustment table the file does not give is at its
\* default.
C18_PartialConfigMergedFieldByField ==
    LET given == arg.file.data
        Gives(table, entry) == table \in DOMAIN given /\ entry \in DOMAIN given[table]
    IN  /\ (pc \in {"cfg_critic", "cfg_evaluated"} /\ arg.file.kind = "object") =>
            /\ \A list \in {"trusted_domains", "blocked_domains", "novelty_keywords"} :
                list \notin DOMAIN given => critic_config[list] = DefaultCriticConfig[list]
            /\ \A table \in {"penalties", "bonuses"} :
                \A magnitude \in DOMAIN DefaultCriticConfig[table] :
                    ~Gives(table, magnitude) =>
                        /\ magnitude \in DOMAIN critic_config[table]
                        /\ critic_config[table][magnitude] = DefaultCriticConfig[table][magnitude]
        /\ (pc = "cfg_evaluated" /\ arg.file.kind = "object") =>
            "value" \in DOMAIN ret.output
        /\ (pc \in {"cfg_scoring", "cfg_scored"} /\ arg.file.kind = "object") =>
            /\ \A table \in {"maxima", "price_band_buckets"} :
                \A entry \in DOMAIN DefaultScoringConfig[table] :
                    ~Gives(table, entry) =>
                        /\ entry \in DOMAIN scoring_config[table]
                        /\ scoring_config[table][entry] = DefaultScoringConfig[table][entry]
            /\ \A dimension \in DOMAIN DefaultScoringConfig.price_band_adjustments :
                \A band \in {"low", "mid", "high"} :
                    ~(/\ Gives("price_band_adjustments", dimension)
                      /\ band \in DOMAIN given.price_band_adjustments[dimension]) =>
                        LET bands == scoring_config.price_band_adjustments[dimension]
                        IN  /\ band \in DOMAIN bands
                            /\ bands[band] =
                                 DefaultScoringConfig.price_band_adjustments[dimension][band]

\* C19: a missing or unparseable configuration file is never fatal: the
\* ScoringEngine, the Critic and the Researcher are constructed and hold
\* exactly the built-in defaults.
C19_BadConfigFileFallsBackToDefaults ==
    arg.file.kind \in {"missing", "corrupt"} =>
        /\ pc # "cfg_failed"
        /\ pc \in {"cfg_scoring", "cfg_scored"} => scoring_config = DefaultScoringConfig
        /\ pc \in {"cfg_critic", "cfg_evaluated"} => critic_config = DefaultCriticConfig
        /\ pc = "cfg_researcher" => ret = [min_credibility |-> "low", source_urls |-> {}]

\* C20: for every idea and every configuration, each of the five ScoreDetail
\* values of score_idea has 0 <= value <= max, and its max is the configured
\* maximum of its dimension.
C20_ScoreDetailsWithinMaxima ==
    pc = "cfg_scored" =>
        \A dimension \in {"demand", "acquisition", "mvp_complexity", "competition",
                          "revenue_velocity"} :
            LET detail == ret.output[dimension]
            IN  /\ 0 <= detail.value
                /\ detail.value <= detail.max
                /\ detail.max = scoring_config.maxima[dimension]

(***************************************************************************)
(* Loading the pool from a dataset file                                    *)
(***************************************************************************)
MaxItems == 2

RequiredFields == {"title", "icp", "pain", "solution", "revenue_model", "key_risks"}

\* JSON values of a dataset item
JsonString(text) == [type |-> "string", text |-> text]
JsonList == [type |-> "list"]
JsonNull == [type |-> "null"]

JsonObject(fields) == [type |-> "object", fields |-> fields]

ItemFields(title, key_risks) ==
    [title |-> title, icp |-> JsonString("Audience"), pain |-> JsonString("Pain point"),
     solution |-> JsonString("Solution"), revenue_model |-> JsonString("$50/month"),
     key_risks |-> key_risks]

\* items of a dataset file: two complete ones, a string in place of an
\* object, an object with two fields only (tests/test_engine_dataset.py), a
\* bare string as key_risks, null as key_risks, null as title
DatasetItems ==
    {JsonObject(ItemFields(JsonString("Alpha"), JsonList)),
     JsonObject(ItemFields(JsonString("Beta"), JsonList)),
     JsonString("Idea"),
     JsonObject([title |-> JsonString("Idea"), icp |-> JsonString("Audience")]),
     JsonObject(ItemFields(JsonString("Idea"), JsonString("not-a-list"))),
     JsonObject(ItemFields(JsonString("Idea"), JsonNull)),
     JsonObject(ItemFields(JsonNull, JsonList))}

\* contents of a dataset file: a JSON array of items, or a JSON object
DatasetFiles ==
    {[type |-> "list", items |-> s] : s \in SeqsUpTo(DatasetItems, MaxItems)}
        \cup {JsonObject([title |-> JsonString("Not a list")])}

\* the checks of one item, in the order of the loop body
ItemError(item) ==
    IF item.type # "object" THEN [error |-> "is not an object", missing |-> {}]
    ELSE IF RequiredFields \ DOMAIN item.fields # {}
        THEN [error |-> "is missing required fields",
              missing |-> RequiredFields \ DOMAIN item.fields]
    ELSE IF item.fields.key_risks.type # "list"
        THEN [error |-> "key_risks must be a list", missing |-> {}]
    ELSE [error |-> NoValue, missing |-> {}]

\* a load that skips the items it rejects
LoadValidRecordsOnly(data) ==
    IF data.type # "list" THEN [raised |-> "ValueError", error |-> "must contain a JSON array"]
    ELSE [ideas |-> SelectSeq(data.items, LAMBDA item : ItemError(item).error = NoValue)]

\* OpportunityEngine._load_dataset_from_file: the loop raises at the first
\* item that fails a check
LoadDatasetFromFile(data) ==
    IF data.type # "list" THEN [raised |-> "ValueError", error |-> "must contain a JSON array"]
    ELSE LET bad == {i \in 1..Len(data.items) : ItemError(data.items[i]).error # NoValue}
         IN  IF bad = {} THEN [ideas |-> data.items]
             ELSE LET first == CHOOSE i \in bad : \A j \in bad : i <= j
                      found == ItemError(data.items[first])
                  IN  [raised |-> "ValueError", error |-> found.error,
                       index |-> first - 1, missing |-> found.missing]

InitLoad ==
    /\ pc = "load_new"
    /\ arg \in DatasetFiles
    /\ scoring_config = DefaultScoringConfig
    /\ critic_config = DefaultCriticConfig
    /\ ret = NoValue
    /\ feedback = EmptyFeedback
    /\ feedback_path = NoValue
    /\ files = NoFiles
    /\ idea_dataset = <<>>
    /\ scored = <<>>
    /\ iteration = 0 /\ ideas = <<>> /\ passes = 0 /\ research_calls = 0
    /\ new_ideas = <<>> /\ weakest = NoValue

\* engine._load_dataset_from_file(path) on an engine made with __new__
LoadDataset ==
    /\ pc = "load_new"
    /\ ret' = LoadDatasetFromFile(arg)
    /\ pc' = IF "raised" \in DOMAIN LoadDatasetFromFile(arg) THEN "load_failed" ELSE "load_returned"
    /\ UNCHANGED <<feedback_path, files, scoring_config, critic_config, feedback, idea_dataset,
                   iteration, scored, ideas, passes, research_calls, new_ideas, weakest, arg>>

\* OpportunityEngine(theme, dataset_path=path)
BuildEngine ==
    /\ pc = "load_new"
    /\ LET loaded == LoadDatasetFromFile(arg)
       IN  IF "raised" \in DOMAIN loaded
           THEN /\ ret' = [raised |-> "ValueError", cause |-> loaded]
                /\ pc' = "engine_failed"
                /\ UNCHANGED idea_dataset
           ELSE /\ idea_dataset' = loaded.ideas
                /\ pc' = "engine_built"
                /\ UNCHANGED ret
    /\ UNCHANGED <<feedback_path, files, scoring_config, critic_config, feedback,
                   iteration, scored, ideas, passes, research_calls, new_ideas, weakest, arg>>

NextLoad == LoadDataset \/ BuildEngine

SpecLoad == InitLoad /\ [][NextLoad]_vars

\* an item passes every check the claim lists
ItemAccepted(item) ==
    /\ item.type = "object"
    /\ RequiredFields \subseteq DOMAIN item.fields
    /\ item.fields.key_risks.type = "list"

\* C21: loading a dataset file is all-or-nothing.  The load raises when the
\* top level is not an array or some item is not an object, lacks a required
\* field or has a key_risks that is not a list; the error carries the index
\* of the first such item and the names of its missing fields; the engine is
\* then not constructed and its pool receives nothing.  Otherwise every item
\* is returned in file order.
C21_DatasetLoadAllOrNothing ==
    LET isArray == arg.type = "list"
        rejected == IF isArray
                    THEN {i \in 1..Len(arg.items) : ~ItemAccepted(arg.items[i])}
                    ELSE {}
        fails == ~isArray \/ rejected # {}
    IN  /\ pc \in {"load_failed", "load_returned"} =>
            IF fails
            THEN /\ pc = "load_failed"
                 /\ ret.raised = "ValueError"
                 /\ isArray =>
                      /\ ret.index + 1 \in rejected
                      /\ \A j \in rejected : ret.index + 1 <= j
                      /\ LET item == arg.items[ret.index + 1]
                         IN  ret.missing = IF item.type = "object"
                                           THEN RequiredFields \ DOMAIN item.fields
                                           ELSE {}
            ELSE /\ pc = "load_returned"
                 /\ ret.ideas = arg.items
        /\ pc \in {"engine_failed", "engine_built"} =>
            IF fails
            THEN pc = "engine_failed" /\ idea_dataset = <<>>
            ELSE pc = "engine_built" /\ idea_dataset = arg.items

\* a two-item file whose second item is rejected: the load has failed with
\* index 1, and an engine built from such a file has failed too
C21_Witness ==
    /\ arg.type = "list"
    /\ Len(arg.items) = 2
    /\ ItemAccepted(arg.items[1])
    /\ ~ItemAccepted(arg.items[2])
    /\ pc = "load_failed"
    /\ ret.index = 1
    /\ ret.missing = {"pain", "solution", "revenue_model", "key_risks"}

\* C22: every idea that enters the pool through a successful load has the six
\* required fields present and non-null, with key_risks a sequence.
C22_LoadedIdeasSatisfyInvariant ==
    pc = "engine_built" =>
        \A i \in 1..Len(idea_dataset) :
            /\ idea_dataset[i].type = "object"
            /\ \A field \in RequiredFields :
                /\ field \in DOMAIN idea_dataset[i].fields
                /\ idea_dataset[i].fields[field].type # "null"
            /\ idea_dataset[i].fields.key_risks.type = "list"

(***************************************************************************)
(* researcher.py: the sequence the research source returns                 *)
(***************************************************************************)
MaxCombined == 3

\* Researcher._credibility_level
CredibilityLevel(label) ==
    LET l == Lower(label)
    IN  IF l = "low" THEN 0 ELSE IF l = "medium" THEN 1 ELSE IF l = "high" THEN 2 ELSE 0

\* Researcher._meets_minimum_credibility
MeetsMinimumCredibility(min_credibility, label) ==
    CredibilityLevel(label) >= CredibilityLevel(min_credibility)

\* a deduplication that keeps the latest idea of a title
KeepLatestOfTitle(kept, idea) ==
    LET title_key == Lower(idea.title)
        same == {i \in 1..Len(kept) : Lower(kept[i].title) = title_key}
    IN  IF title_key = "" THEN kept
        ELSE IF same = {} THEN Append(kept, idea)
        ELSE [kept EXCEPT ![CHOOSE i \in same : TRUE] = idea]

\* one step of the loop of _deduplicate_ideas: kept is list(deduped.values()),
\* in the insertion order of the keys
DeduplicateStep(kept, idea) ==
    LET title_key == Lower(idea.title)
        same == {i \in 1..Len(kept) : Lower(kept[i].title) = title_key}
    IN  IF title_key = "" THEN kept
        ELSE IF same = {} THEN Append(kept, idea)
        ELSE LET i == CHOOSE i \in same : TRUE
             IN  IF CredibilityLevel(idea.credibility) > CredibilityLevel(kept[i].credibility)
                 THEN [kept EXCEPT ![i] = idea]
                 ELSE kept

RECURSIVE DeduplicateFrom(_, _, _)
DeduplicateFrom(found, i, kept) ==
    IF i > Len(found) THEN kept
    ELSE DeduplicateFrom(found, i + 1, DeduplicateStep(kept, found[i]))

\* Researcher._deduplicate_ideas
DeduplicateIdeas(found) == DeduplicateFrom(found, 1, <<>>)

\* Researcher.search_micro_saas_ideas on the ideas its sources give together
SearchMicroSaasIdeas(min_credibility, combined) ==
    DeduplicateIdeas(
        SelectSeq(combined, LAMBDA idea : MeetsMinimumCredibility(min_credibility, idea.credibility)))

\* ideas the sources give: titles differing in case only, an empty title
FoundIdeas ==
    {[title |-> t, credibility |-> c] :
        t \in {"Alpha", "ALPHA", "Beta", ""}, c \in {"low", "medium", "high"}}

InitSearch ==
    /\ pc = "search_call"
    /\ arg \in [min_credibility : {"low", "medium", "high"},
                combined : SeqsUpTo(FoundIdeas, MaxCombined)]
    /\ scoring_config = DefaultScoringConfig
    /\ critic_config = DefaultCriticConfig
    /\ ret = NoValue
    /\ feedback = EmptyFeedback
    /\ feedback_path = NoValue
    /\ files = NoFiles
    /\ idea_dataset = <<>>
    /\ scored = <<>>
    /\ iteration = 0 /\ ideas = <<>> /\ passes = 0 /\ research_calls = 0
    /\ new_ideas = <<>> /\ weakest = NoValue

\* researcher.search_micro_saas_ideas(theme)
Search ==
    /\ pc = "search_call"
    /\ ret' = SearchMicroSaasIdeas(arg.min_credibility, arg.combined)
    /\ pc' = "search_done"
    /\ UNCHANGED <<feedback_path, files, scoring_config, critic_config, feedback, idea_dataset,
                   iteration, scored, ideas, passes, research_calls, new_ideas, weakest, arg>>

NextSearch == Search

SpecSearch == InitSearch /\ [][NextSearch]_vars

\* position in the credibility order low < medium < high
Rank(label) == CASE label = "low" -> 0 [] label = "medium" -> 1 [] label = "high" -> 2

\* C23: the returned sequence holds only ideas at or above the configured
\* minimum credibility, none with an empty title, no two with titles equal
\* ignoring case; of the input ideas sharing a title the one of highest
\* credibility is returned, the earliest of them on a tie.
C23_SearchFilteredAndDeduplicated ==
    pc = "search_done" =>
        LET input == arg.combined
            SameTitle(a, b) == Lower(a) = Lower(b)
            passing == {i \in 1..Len(input) :
                          /\ Rank(input[i].credibility) >= Rank(arg.min_credibility)
                          /\ input[i].title # ""}
        IN  /\ \A k \in 1..Len(ret) :
                /\ Rank(ret[k].credibility) >= Rank(arg.min_credibility)
                /\ ret[k].title # ""
                /\ \A m \in 1..Len(ret) : SameTitle(ret[k].title, ret[m].title) => k = m
            /\ \A i \in passing :
                \E k \in 1..Len(ret) :
                    /\ SameTitle(ret[k].title, input[i].title)
                    /\ LET sharing == {j \in passing : SameTitle(input[j].title, input[i].title)}
                           best == CHOOSE j \in sharing :
                                       \A n \in sharing :
                                           \/ Rank(input[j].credibility) > Rank(input[n].credibility)
                                           \/ /\ Rank(input[j].credibility) = Rank(input[n].credibility)
                                              /\ j <= n
                       IN  ret[k] = input[best]
            /\ \A k \in 1..Len(ret) : \E i \in passing : ret[k] = input[i]

\* three ideas titled "Alpha"/"ALPHA" were found, medium then high then high:
\* the first of the two high ones is the only one returned
C23_Witness ==
    /\ pc = "search_done"
    /\ arg.min_credibility = "medium"
    /\ arg.combined = << [title |-> "Alpha", credibility |-> "medium"],
                         [title |-> "ALPHA", credibility |-> "high"],
                         [title |-> "Alpha", credibility |-> "high"] >>
    /\ ret = << [title |-> "ALPHA", credibility |-> "high"] >>

(***************************************************************************)
(* scoring.py: the price band of a revenue model string                    *)
(***************************************************************************)
MaxPrices == 2

\* a numeral matched by price_pattern: its value in whole currency units and
\* the number of "." in the matched text ("49", "120.0", "1.234.567")
Numeral(value, dots) == [value |-> value, dots |-> dots]

Numerals ==
    {Numeral(49, 0), Numeral(120, 1), Numeral(121, 0), Numeral(500, 0), Numeral(900, 0),
     Numeral(1234567, 2)}

\* revenue model strings by what _parse_revenue_model reads in them: a
\* contact-sales trigger, the word "free", the numerals in text order
RevenueTexts ==
    [contact_sales : BOOLEAN, free : BOOLEAN, numerals : SeqsUpTo(Numerals, MaxPrices)]

\* ScoringEngine._parse_revenue_model: float(value.replace(",", "")) raises
\* ValueError on a numeral that keeps two or more "."
ParseRevenueModel(text) ==
    IF \E i \in 1..Len(text.numerals) : text.numerals[i].dots >= 2
    THEN [raised |-> "ValueError"]
    ELSE [prices |-> [i \in 1..Len(text.numerals) |-> text.numerals[i].value],
          contact_sales |-> text.contact_sales,
          freemium |-> text.free]

\* ScoringEngine._get_price_band(revenue_model) on the string
PriceBandOfText(cfg, text) ==
    LET parsed == ParseRevenueModel(text)
    IN  IF "raised" \in DOMAIN parsed THEN parsed
        ELSE [band |-> GetPriceBand(cfg, parsed)]

InitPriceBand ==
    /\ pc = "band_call"
    /\ arg \in RevenueTexts
    /\ scoring_config \in ScoringConfigs
    /\ critic_config = DefaultCriticConfig
    /\ ret = NoValue
    /\ feedback = EmptyFeedback
    /\ feedback_path = NoValue
    /\ files = NoFiles
    /\ idea_dataset = <<>>
    /\ scored = <<>>
    /\ iteration = 0 /\ ideas = <<>> /\ passes = 0 /\ research_calls = 0
    /\ new_ideas = <<>> /\ weakest = NoValue

\* scoring_engine._get_price_band(revenue_model)
ClassifyPriceBand ==
    /\ pc = "band_call"
    /\ ret' = PriceBandOfText(scoring_config, arg)
    /\ pc' = "band_done"
    /\ UNCHANGED <<feedback_path, files, scoring_config, critic_config, feedback, idea_dataset,
                   iteration, scored, ideas, passes, research_calls, new_ideas, weakest, arg>>

NextPriceBand == ClassifyPriceBand

SpecPriceBand == InitPriceBand /\ [][NextPriceBand]_vars

\* C24: the price band is "high" when a contact-sales phrase is present;
\* else "low" when freemium and no price was parsed; else "mid" when no price
\* was parsed; else "low", "mid" or "high" by the average of the parsed
\* prices against the two thresholds.  Every string gets a band, none an
\* error; numerals that are not well-formed prices count as not parsed.
C24_PriceBandByPriority ==
    pc = "band_done" =>
        LET wellFormed == SelectSeq(arg.numerals, LAMBDA n : n.dots <= 1)
            total == SumSeq([i \in 1..Len(wellFormed) |-> wellFormed[i].value])
            low == scoring_config.price_band_buckets.low
            mid == scoring_config.price_band_buckets.mid
        IN  /\ "band" \in DOMAIN ret
            /\ ret.band =
                 IF arg.contact_sales THEN "high"
                 ELSE IF arg.free /\ wellFormed = <<>> THEN "low"
                 ELSE IF wellFormed = <<>> THEN "mid"
                 ELSE IF total <= low * Len(wellFormed) THEN "low"
                 ELSE IF total <= mid * Len(wellFormed) THEN "mid"
                 ELSE "high"

(***************************************************************************)
(* refine_dataset on pools whose two mean ratios are close or equal        *)
(***************************************************************************)
\* moderate pain at "$49/month": demand 24 of 30; unclear audience:
\* acquisition 12 of 20
IdeaNarrow ==
    [BaseIdea EXCEPT !.title = "Alpha", !.icp = {},
                     !.pain = [label |-> "moderate", similarity |-> 62, mild_keyword |-> FALSE]]

\* moderate pain at "$49/month": demand 24 of 30; SMB audience: acquisition 18 of 20
IdeaWide ==
    [BaseIdea EXCEPT !.title = "Beta",
                     !.pain = [label |-> "moderate", similarity |-> 62, mild_keyword |-> FALSE]]

\* demand 24 of 30; niche audience: acquisition 16 of 20
IdeaNiche ==
    [BaseIdea EXCEPT !.title = "Gamma", !.icp = {"freelancer"},
                     !.pain = [label |-> "moderate", similarity |-> 62, mild_keyword |-> FALSE]]

TiePools == SeqsUpTo({IdeaNarrow, IdeaWide, IdeaNiche}, MaxPool + 1)

InitWeakest ==
    /\ pc = "refine_call"
    /\ scoring_config = DefaultScoringConfig
    /\ critic_config = DefaultCriticConfig
    /\ feedback = EmptyFeedback
    /\ feedback_path = NoValue
    /\ files = NoFiles
    /\ idea_dataset \in TiePools
    /\ scored = RunIteration(scoring_config, critic_config, feedback, idea_dataset)
    /\ EngineAtRest

SpecWeakest == InitWeakest /\ [][NextRefine]_vars

\* C25: the weakest dimension chosen by refine_dataset is the one of demand
\* and acquisition with the lower mean value/max ratio over the scored ideas;
\* when the two means are equal, and when no idea was scored, it is demand.
C25_WeakestIsLowerMeanDemandOnTie ==
    [][(pc = "refine_call" /\ ~GreenIn(scored)) =>
        LET n == Len(scored)
            demand_total == SumSeq([i \in 1..n |-> scored[i].scores.demand.value])
            acquisition_total == SumSeq([i \in 1..n |-> scored[i].scores.acquisition.value])
            \* demand_total / (30 n) against acquisition_total / (20 n)
            lower == IF demand_total * 20 <= acquisition_total * 30
                     THEN "demand" ELSE "acquisition"
        IN  weakest' = lower]_vars

\* C26: a refine_dataset call on a list without a green idea changes the pool
\* only by filtering and appending: the new pool is the retained ideas, each
\* unchanged and in their original order, followed by at most 3 ideas the
\* research source returned; the feedback map and the scoring and critic
\* configuration are unchanged; when the research source returns nothing the
\* new pool is a subsequence of the old one.
C26_RefineOnlyFiltersAndAppends ==
    [][(pc = "refine_call" /\ ~GreenIn(scored)) =>
        LET K == KeptIndices(idea_dataset, scored)
            k == Cardinality(K)
            n == Len(idea_dataset')
        IN  /\ k <= n
            /\ n <= k + 3
            /\ \A j \in 1..k : idea_dataset'[j] = idea_dataset[NthIndex(K, j)]
            /\ \A j \in (k + 1)..n : idea_dataset'[j] \in Range(new_ideas')
            /\ feedback' = feedback
            /\ scoring_config' = scoring_config
            /\ critic_config' = critic_config
            /\ new_ideas' = <<>> =>
                \E at \in [1..n -> 1..Len(idea_dataset)] :
                    /\ \A i \in 1..n : idea_dataset'[i] = idea_dataset[at[i]]
                    /\ \A i \in 1..n : \A j \in 1..n : i < j => at[i] < at[j]]_vars

\* a refinement dropped one of two pool ideas and appended three of the four
\* candidates returned
C26_Witness ==
    /\ pc = "refined"
    /\ ~GreenIn(scored)
    /\ Len(scored) = 2
    /\ Len(new_ideas) = 4
    /\ Len(idea_dataset) = 4
    /\ \E i \in 1..2 : scored[i].recommendation = "red_kill"
    /\ \E i \in 1..2 : scored[i].title = idea_dataset[1].title
    /\ \A j \in 2..4 : idea_dataset[j] \in Range(new_ideas)

\* C27: the titles a candidate is compared with are those of the pool after
\* the filter: a returned candidate whose title is not the title of a retained
\* idea is eligible, the title of an idea dropped in the same call included,
\* and when at most 3 candidates are eligible every one of them is appended.
C27_DroppedTitleIsEligible ==
    [][(pc = "refine_call" /\ ~GreenIn(scored)) =>
        LET K == KeptIndices(idea_dataset, scored)
            retained_titles == {idea_dataset[i].title : i \in K}
            eligible == {i \in 1..Len(new_ideas') : new_ideas'[i].title \notin retained_titles}
            appended == SubSeq(idea_dataset', Cardinality(K) + 1, Len(idea_dataset'))
        IN  /\ \A j \in 1..Len(appended) : appended[j].title \notin retained_titles
            /\ Cardinality(eligible) <= 3 =>
                  \A i \in eligible : Count(appended, new_ideas'[i]) >= 1]_vars

\* a refinement dropped the pool idea titled "Gamma" and appended the
\* candidate of that title
C27_Witness ==
    /\ pc = "refined"
    /\ ~GreenIn(scored)
    /\ \E i \in 1..Len(scored) :
        /\ scored[i].title = "Gamma"
        /\ scored[i].recommendation = "red_kill"
    /\ Count(TitleSeq(idea_dataset), "Gamma") = 1
    /\ \E j \in 1..Len(idea_dataset) : idea_dataset[j] = CandGamma

\* C28: refine_dataset admits candidates by their ScoringEngine scores alone.
\* An eligible candidate that the eviction rule would drop (critic adjustment
\* <= -5, or recommendation red_kill) is left out only when three appended
\* candidates rank at least as high by (weakest-dimension value, total value).
C28_CandidatesAdmittedOnScoresAlone ==
    [][(pc = "refine_call" /\ ~GreenIn(scored)) =>
        LET k == Cardinality(KeptIndices(idea_dataset, scored))
            kept == SubSeq(idea_dataset', 1, k)
            appended == SubSeq(idea_dataset', k + 1, Len(idea_dataset'))
            eligible == Eligible(kept, new_ideas')
        IN  \A x \in Range(eligible) :
                LET judged == ScoreOne(scoring_config, critic_config, feedback, x)
                IN  (/\ \/ judged.critic_adjustment <= Tenths(-5)
                        \/ judged.recommendation = "red_kill"
                     /\ Count(appended, x) = 0) =>
                        /\ Len(appended) = 3
                        /\ \A i \in 1..3 :
                            RanksAtLeast(scoring_config, weakest', appended[i], x)]_vars

\* after a refinement the last idea of the pool is a returned candidate whose
\* title was not in the scored pool, whose critic adjustment is <= -5 and
\* whose recommendation is red_kill
C28_Witness ==
    /\ pc = "refined"
    /\ ~GreenIn(scored)
    /\ idea_dataset # <<>>
    /\ LET last == idea_dataset[Len(idea_dataset)]
           judged == ScoreOne(scoring_config, critic_config, feedback, last)
       IN  /\ last \in Range(new_ideas)
           /\ \A i \in 1..Len(scored) : scored[i].title # last.title
           /\ judged.critic_adjustment <= Tenths(-5)
           /\ judged.recommendation = "red_kill"

\* an idea carrying none of search_volume, keyword_difficulty, trend_status
SignalFree(idea) ==
    /\ idea.search_volume.kind = "none"
    /\ idea.keyword_difficulty.kind = "none"
    /\ idea.trend_status = NoValue

PoolSignalFree == \A i \in 1..Len(idea_dataset) : SignalFree(idea_dataset[i])

\* C29: a scoring pass never recommends green_build for an idea that carries
\* none of search_volume, keyword_difficulty and trend_status; and a run whose
\* pool holds only such ideas at every moment ends after exactly three scoring
\* passes and three research calls and returns no green_build idea.
C29_SignalFreeNeverGreen ==
    /\ [][pc = "score" =>
            \A i \in 1..Len(idea_dataset) :
                SignalFree(idea_dataset[i]) => scored'[i].recommendation # "green_build"]_vars
    /\ ([]PoolSignalFree =>
            [](pc = "done" => /\ passes = max_iterations
                              /\ research_calls = max_iterations
                              /\ ~GreenIn(ideas)))

\* a finished run over a non-empty signal-free pool: three passes, three
\* research calls, a non-empty result
C29_Witness ==
    /\ pc = "done"
    /\ PoolSignalFree
    /\ idea_dataset # <<>>
    /\ ideas # <<>>
    /\ passes = 3
    /\ research_calls = 3
    /\ ~GreenIn(ideas)

(***************************************************************************)
(* OpportunityEngine.run over a non-empty pool with a research source that *)
(* finds nothing                                                           *)
(***************************************************************************)
InitBarren ==
    /\ Init
    /\ idea_dataset # <<>>

\* Refine keeping the first scored list that is not empty
RefineKeepLastNonEmpty ==
    /\ pc = "refine"
    /\ idea_dataset' = RefineDataset(scoring_config, idea_dataset, scored,
                                     WeakestDimension(scored), <<>>)
    /\ weakest' = IF AnyGreen(scored) THEN NoValue ELSE WeakestDimension(scored)
    /\ research_calls' = IF AnyGreen(scored) THEN research_calls ELSE research_calls + 1
    /\ ideas' = IF scored = <<>> THEN ideas ELSE scored
    /\ iteration' = iteration + 1
    /\ pc' = IF iteration + 1 < max_iterations THEN "score" ELSE "sort"
    /\ UNCHANGED <<feedback_path, files, scoring_config, critic_config, feedback, scored, passes, new_ideas,
                   arg, ret>>

\* run, rest of the loop body, search_micro_saas_ideas returning []
RefineNoResearch ==
    /\ pc = "refine"
    /\ idea_dataset' = RefineDataset(scoring_config, idea_dataset, scored,
                                     WeakestDimension(scored), <<>>)
    /\ weakest' = IF AnyGreen(scored) THEN NoValue ELSE WeakestDimension(scored)
    /\ research_calls' = IF AnyGreen(scored) THEN research_calls ELSE research_calls + 1
    /\ ideas' = scored
    /\ iteration' = iteration + 1
    /\ pc' = IF iteration + 1 < max_iterations THEN "score" ELSE "sort"
    /\ UNCHANGED <<feedback_path, files, scoring_config, critic_config, feedback, scored, passes, new_ideas,
                   arg, ret>>

NextBarren == ScorePass \/ RefineNoResearch \/ SortReturn

SpecBarren == InitBarren /\ [][NextBarren]_vars

\* C30: when the first refinement of a non-empty pool drops every idea and
\* research finds nothing on any call, the pool is empty from the second
\* scoring pass on and run returns the empty list.
C30_EmptiedPoolReturnsEmptyList ==
    [](iteration = 1 /\ idea_dataset = <<>> =>
        [](/\ idea_dataset = <<>>
           /\ passes >= 2 => scored = <<>>
           /\ pc = "done" => ideas = <<>> /\ passes = max_iterations))

\* a finished run that started from a non-empty pool, made three passes and
\* three research calls, and returns the empty list from an empty pool
C30_Witness ==
    /\ pc = "done"
    /\ idea_dataset = <<>>
    /\ ideas = <<>>
    /\ passes = 3
    /\ research_calls = 3

====
